---- MODULE Spec2Model ----
(***************************************************************************)
(* Control plane of mobilys-otp-ecs: app/ecs_control.py (builder jobs,     *)
(* router services, fail-loop guard, teardown) and app/main.py (router     *)
(* warm-up and the idle reaper), against an abstract ECS / Cloud Map /     *)
(* CloudWatch Logs control plane.                                          *)
(***************************************************************************)
EXTENDS Integers, Sequences, FiniteSets, TLC

(* ------------------------------ bounds -------------------------------- *)
\* injected remote faults available to one behaviour
MaxFaults == 7
\* task instances the platform launches for router services in one behaviour
MaxTasks == 3
\* guard window, in poll intervals (fail_window_seconds / 5)
FailWindow == 4
\* requests accepted by the control plane whose answer is lost, per behaviour
MaxLost == 1
\* horizon of time.time(), in units of 900 s
MaxTime == 3
\* the values random.random() is drawn from: j / JitterSteps for j < JitterSteps
JitterSteps == 20
\* pages of the longest log stream, and log events per page of it
LongLogPages == 52
LongPageLines == 9

(* -------------------------- program constants ------------------------- *)
\* range(6) at every retry loop
AttemptBudget == 6
\* fail_threshold default
fail_threshold == 3
\* range(30) drain poll of delete_router_service
DrainPolls == 30
\* range(6) cosmetic wait of the create path
CosmeticPolls == 6
\* IDLE_SECS, in reaper time units (one unit = 900 s)
IDLE_SECS == 2

service_prefix == "router"
nsName == "mobilys-otp.local"
RouterFamilyBaseImage == "img:base"

EnsProcs == {"e1", "e2"}
WarmProcs == {"w1", "w2"}
ROUTER_IMAGE == "img:v1"
DelProcs == {"d1", "d2"}
Scenarios == {"alpha", "beta"}
Images == {"img:v1", "img:v2"}

VARIABLES
    sdServices,   \* Cloud Map: set of [id, name] registrations of the namespace
    sdNextId,
    taskDefs,     \* ECS: revisions of the router family, revision = index
    ecsServices,  \* ECS: set of service records of the cluster
    svcNextId,
    tasks,        \* ECS: task instances of router services
    taskCap,      \* task instances the platform launches in this behaviour
    lostCap,      \* accepted requests whose answer is lost in this behaviour
    streams,      \* the log streams a builder container may write in this behaviour
    backoff,      \* the retry loop at its _sleep_backoff: attempt index and delay slept
    faults,       \* remote faults still to be injected
    ens,          \* ensure_router_service calls: parameters, position, locals
    ehist,        \* per ensure call: what it did (observation only)
    del,          \* delete_router_service calls
    dhist,
    bTaskDefs,    \* ECS: number of ACTIVE revisions of the builder family
    jobs,         \* ECS: one-off builder tasks launched
    bld,          \* the submit_builder_and_wait call
    bhist,
    now,          \* time.time(), in units of 900 s
    _last_hit,    \* main.py: scenario id -> last access
    reaper,       \* _idle_reaper_loop
    warm,         \* router_warmup request handlers
    rhist

ecsVars == <<sdServices, sdNextId, taskDefs, ecsServices, svcNextId, tasks, taskCap, lostCap, streams, backoff>>
ensVars == <<ens, ehist>>
delVars == <<del, dhist>>
bldVars == <<bTaskDefs, jobs, bld, bhist>>
mainVars == <<now, _last_hit, reaper, warm, rhist>>
notEnsure == <<delVars, bldVars, mainVars>>
notDelete == <<ensVars, bldVars, mainVars>>
vars == <<sdServices, sdNextId, taskDefs, ecsServices, svcNextId, tasks, taskCap, lostCap, streams, backoff, faults,
          ens, ehist, del, dhist, bTaskDefs, jobs, bld, bhist,
          now, _last_hit, reaper, warm, rhist>>

(* ------------------------- error classification ----------------------- *)
\* botocore ClientError codes the model distinguishes
ClientErrorCodes ==
    {"ThrottlingException", "TooManyRequestsException", "RequestLimitExceeded",
     "ServiceUnavailableException", "ServerException", "InternalServiceException",
     "AccessDeniedException", "InvalidParameterException",
     "ServiceNotFoundException", "ServiceNotActiveException",
     "ClusterNotFoundException", "ServiceAlreadyExists"}
\* exceptions that are not ClientError; OtherSU carries "Service Unavailable"
\* in its text, OtherError does not
ConnErrors == {"EndpointConnectionError", "ConnectionClosedError",
               "ReadTimeoutError", "WaiterError"}
OtherErrors == {"OtherSU", "OtherError"}
IsClientError(e) == e \in ClientErrorCodes

\* _sleep_backoff's defaults base=0.8 and cap=16.0, in milliseconds
base_ms == 800
cap_ms == 16000
Min(a, b) == IF a < b THEN a ELSE b
\* min(cap, base * (2 ** attempt))
Ceiling(attempt) == Min(cap_ms, base_ms * 2^attempt)
\* min(cap, base * (2 ** attempt)) * (0.5 + random.random()), in milliseconds,
\* with random.random() = j / JitterSteps
Delay(attempt, j) == (Ceiling(attempt) * (JitterSteps + 2 * j)) \div (2 * JitterSteps)
BackoffOff == [pc |-> "off", attempt |-> 0, delay |-> 0]
\* a retry loop whose every call fails transiently: _sleep_backoff(attempt) and
\* the next attempt, for attempt in range(6)
_sleep_backoff ==
    /\ backoff.pc \in {"loop", "slept"}
    /\ backoff.attempt < AttemptBudget
    /\ \E j \in 0..(JitterSteps - 1) :
        backoff' = [pc |-> "slept", attempt |-> backoff.attempt + 1,
                    delay |-> Delay(backoff.attempt, j)]
    /\ UNCHANGED <<sdServices, sdNextId, taskDefs, ecsServices, svcNextId, tasks,
                   taskCap, lostCap, streams, faults, ensVars, delVars, bldVars,
                   mainVars>>

_is_transient(err) ==
    IF err \in ConnErrors THEN TRUE
    ELSE IF IsClientError(err)
         THEN err \in {"ThrottlingException", "TooManyRequestsException",
                       "RequestLimitExceeded", "ServiceUnavailableException",
                       "ServerException", "InternalServiceException"}
         ELSE err = "OtherSU"

\* faults a remote call may suffer whatever the state of the control plane
InjectedFaults ==
    {"ThrottlingException", "ServerException", "ServiceUnavailableException",
     "AccessDeniedException", "EndpointConnectionError", "ReadTimeoutError",
     "OtherSU", "OtherError"}
\* errors that leave open whether the request reached the control plane
LostResponse(r) == r \in {"ReadTimeoutError"}
Faults == IF faults > 0 THEN InjectedFaults ELSE {}
Spend(r) == IF r \in InjectedFaults THEN faults - 1 ELSE faults

\* a retry-wrapped call site is entered
Enter(h, site) ==
    [h EXCEPT !.site = site, !.outcome = "", !.calls = 0, !.transients = 0,
              !.sleeps = 0, !.last = ""]
\* one answer of the remote operation at a retry-wrapped call site
Answered(h, r, decision) ==
    [h EXCEPT !.calls = @ + 1,
              !.transients = IF r # "ok" /\ _is_transient(r) THEN @ + 1 ELSE @,
              !.sleeps = IF decision = "retry" THEN @ + 1 ELSE @,
              !.outcome = IF decision = "retry" THEN "" ELSE decision,
              !.last = IF r # "ok" THEN r ELSE @]

(* ----------------------------- utilities ------------------------------ *)
ServiceName(prefix, scenario_id) == prefix \o "-" \o scenario_id
router_dns_name(service_name) == service_name \o "." \o nsName

(* --------------------------- control plane ---------------------------- *)
\* Cloud Map list_services filtered by the code's loop on Name
SdLookup(name) == {s \in sdServices : s.name = name}
\* sd.list_services is called once, without NextToken: it answers one page
SdPage == 100
\* a page full of registrations of other services of the namespace
SdOthers == [id |-> 0, name |-> "other-services"]
SdCount ==
    Cardinality(sdServices \ {SdOthers}) + (IF SdOthers \in sdServices THEN SdPage ELSE 0)
\* what the scan of the one page may find of the name: all of it when the
\* namespace fits the page, else possibly nothing
SdListed(name) ==
    IF SdCount <= SdPage THEN {SdLookup(name)} ELSE {SdLookup(name), {}}
\* ECS describe_services(services=[name])["services"]
EcsDescribe(name) == {s \in ecsServices : s.name = name}
EcsLive(name) == {s \in EcsDescribe(name) : s.status # "INACTIVE"}
RunningCount(name) ==
    Cardinality({t \in tasks : t.svc = name /\ t.lastStatus = "RUNNING"})
\* list_tasks(serviceName, desiredStatus="STOPPED")
ListStopped(name) ==
    {t.id : t \in {u \in tasks : u.svc = name /\ u.desiredStatus = "STOPPED"}}
LatestTaskDef == Len(taskDefs)

(* ------------------------ template revisions -------------------------- *)
\* a Python dict as a function on its key set
EmptyDict == [k \in {} |-> ""]
DictUpdate(d, k, v) == [x \in DOMAIN d \cup {k} |-> IF x = k THEN v ELSE d[x]]
SetDefault(d, k, v) == IF k \in DOMAIN d THEN d ELSE DictUpdate(d, k, v)
\* {**a, **b}
DictMerge(a, b) ==
    [x \in DOMAIN a \cup DOMAIN b |-> IF x \in DOMAIN b THEN b[x] ELSE a[x]]

AWS_REGION == "ap-northeast-1"

\* the environment ensure_router_service writes into the cloned container
MergedEnv(base_env, env, scenario_id, graphs_bucket, graph_prefix, region) ==
    LET a1 == DictUpdate(env, "GRAPH_SCENARIO_ID", scenario_id)
        a2 == IF graphs_bucket # "" THEN DictUpdate(a1, "GRAPHS_BUCKET", graphs_bucket)
              ELSE a1
        a3 == IF graph_prefix # "" THEN DictUpdate(a2, "GRAPH_PREFIX", graph_prefix)
              ELSE a2
        add_env == SetDefault(a3, "AWS_REGION", region)
    IN  DictMerge(base_env, add_env)

\* the revision registered from the base revision and the call's inputs
DerivedRevision(base, c) ==
    [image |-> IF c.image # "" THEN c.image ELSE base.image,
     scenario |-> c.scenario_id,
     port |-> c.container_port,
     env |-> MergedEnv(base.env, c.env, c.scenario_id, c.graphs_bucket,
                       c.graph_prefix, AWS_REGION)]

\* the base revision provisioned out of band
BaseRevision ==
    [image |-> RouterFamilyBaseImage, scenario |-> "", port |-> 8081,
     env |-> [k \in {"GRAPH_PREFIX"} |-> "graphs"]]

(* ----------------------- ensure_router_service ------------------------ *)
EnsCall(sid, image, dc, env) ==
    [pc |-> "idle", scenario_id |-> sid, image |-> image, desired_count |-> dc,
     env |-> env, graphs_bucket |-> "", graph_prefix |-> "graphs",
     container_port |-> 8081, auto_stop_on_fail |-> TRUE,
     registry_arn |-> 0, base_td |-> 0, new_td_arn |-> 0, attempt |-> 0,
     polls |-> 0, elapsed |-> 0, failures |-> 0, task_arns |-> {},
     result |-> "", err |-> "", follows |-> {}]
\* the same call, made by a caller that first lets the calls in procs finish
After(call, procs) == [call EXCEPT !.follows = procs]
EnsHist0 ==
    [fresh |-> FALSE, after |-> {}, path |-> "", site |-> "", outcome |-> "",
     last |-> "", calls |-> 0, transients |-> 0, sleeps |-> 0,
     fallback |-> FALSE, healthy |-> FALSE, forced |-> FALSE, oldseen |-> FALSE]

\* the call is over: its locals are gone, its outcome stays
Over(c, pc, result, err) ==
    [c EXCEPT !.pc = pc, !.result = result, !.err = err, !.attempt = 0,
              !.polls = 0, !.elapsed = 0, !.failures = 0, !.task_arns = {}]
Raised(p, e) == [ens EXCEPT ![p] = Over(ens[p], "raised", "", e)]
Returned(p, v) == [ens EXCEPT ![p] = Over(ens[p], "done", v, "")]

SvcNameOf(p) == ServiceName(service_prefix, ens[p].scenario_id)
EnsFinished(p) == ens[p].pc \in {"done", "raised"}
\* the caller's earlier call q has returned or raised, or was never made
CallOver(q) ==
    IF q \in EnsProcs THEN ens[q].pc \in {"done", "raised", "off"}
    ELSE del[q].pc \in {"done", "raised", "off"}

\* a loop that asks only whether attempts are left
RetryAnyError(err, attempt) ==
    IF attempt < AttemptBudget - 1 THEN "retry" ELSE "raise"
\* what the four uniform retry loops do with an exception at attempt index a
RetryDecision(err, attempt) ==
    IF _is_transient(err) /\ attempt < AttemptBudget - 1 THEN "retry" ELSE "raise"
\* what the create_service loop does with an exception
CreateDecision(err) ==
    IF IsClientError(err) /\ err \in {"ServerException", "ServiceUnavailableException"}
    THEN "retry" ELSE "raise"

\* a test that only asks whether describe_services answered
ServiceExistsNotNone(svcs) == TRUE
\* exists = svcs and svcs[0].get("status") != "INACTIVE"
ServiceExists(svcs) ==
    svcs # {} /\ (CHOOSE s \in svcs : TRUE).status # "INACTIVE"

\* where the call goes once the Service is created or updated
GuardEntry(c) ==
    IF c.auto_stop_on_fail /\ c.desired_count > 0 THEN "guard_check" ELSE "dns"

\* a start that does not look at the image
ensure_start_any_image(p) ==
    /\ ens[p].pc = "idle"
    /\ \A q \in ens[p].follows : CallOver(q)
    /\ ens' = [ens EXCEPT ![p].pc = "sd_create"]
    /\ ehist' = [ehist EXCEPT ![p].fresh = (sdServices = {} /\ ecsServices = {}),
                              ![p].after = {q \in EnsProcs : EnsFinished(q)}]
    /\ UNCHANGED <<ecsVars, faults, notEnsure>>

ensure_start(p) ==
    /\ ens[p].pc = "idle"
    /\ \A q \in ens[p].follows : CallOver(q)
    /\ ens' = [ens EXCEPT ![p].pc = IF ens[p].image = "" THEN "raised" ELSE "sd_create",
                          ![p].err = IF ens[p].image = "" THEN "ValueError" ELSE ""]
    /\ ehist' = [ehist EXCEPT ![p].fresh = (sdServices = {} /\ ecsServices = {}),
                              ![p].after = {q \in EnsProcs : EnsFinished(q)}]
    /\ UNCHANGED <<ecsVars, faults, notEnsure>>

SdCreateResponses(name) ==
    IF SdLookup(name) = {} THEN {"ok"} ELSE {"ServiceAlreadyExists"}

\* sd.create_service and its ClientError handler
ensure_sd_create(p) ==
    /\ ens[p].pc = "sd_create"
    /\ \E r \in SdCreateResponses(SvcNameOf(p)) \cup Faults :
        /\ faults' = Spend(r)
        /\ IF r = "ok"
           THEN /\ sdServices' = sdServices \cup
                        {[id |-> sdNextId, name |-> SvcNameOf(p)]}
                /\ sdNextId' = sdNextId + 1
                /\ ens' = [ens EXCEPT ![p].pc = "list_td",
                                      ![p].registry_arn = sdNextId]
           ELSE /\ UNCHANGED <<sdServices, sdNextId>>
                /\ ens' = IF r \in {"ServiceAlreadyExists"}
                          THEN [ens EXCEPT ![p].pc = "sd_list"]
                          ELSE Raised(p, r)
    /\ UNCHANGED <<taskDefs, ecsServices, svcNextId, tasks, taskCap, lostCap, streams, backoff, ehist, notEnsure>>

\* sd.list_services and the scan for the name
ensure_sd_list(p) ==
    /\ ens[p].pc = "sd_list"
    /\ \E r \in {"ok"} \cup Faults, found \in SdListed(SvcNameOf(p)) :
        /\ faults' = Spend(r)
        /\ ens' = IF r = "ok"
                  THEN [ens EXCEPT ![p].pc = "list_td",
                            ![p].registry_arn =
                                IF found = {} THEN 0
                                ELSE (CHOOSE s \in found : TRUE).id]
                  ELSE Raised(p, r)
    /\ UNCHANGED <<ecsVars, ehist, notEnsure>>

\* ecs.list_task_definitions(status=ACTIVE, sort=DESC, maxResults=1)
ensure_list_td(p) ==
    /\ ens[p].pc = "list_td"
    /\ \E r \in {"ok"} \cup Faults :
        /\ faults' = Spend(r)
        /\ ens' = IF r # "ok"
                  THEN Raised(p, r)
                  ELSE IF LatestTaskDef = 0
                  THEN Raised(p, "RuntimeError")
                  ELSE [ens EXCEPT ![p].pc = "describe_base",
                                   ![p].base_td = LatestTaskDef]
    /\ UNCHANGED <<ecsVars, ehist, notEnsure>>

\* ecs.describe_task_definition(base)
ensure_describe_base(p) ==
    /\ ens[p].pc = "describe_base"
    /\ \E r \in {"ok"} \cup Faults :
        /\ faults' = Spend(r)
        /\ ens' = IF r = "ok" THEN [ens EXCEPT ![p].pc = "register_td"]
                  ELSE Raised(p, r)
    /\ UNCHANGED <<ecsVars, ehist, notEnsure>>

\* clone, inject env, ecs.register_task_definition
ensure_register_td(p) ==
    /\ ens[p].pc = "register_td"
    /\ \E r \in {"ok"} \cup Faults :
        /\ faults' = Spend(r)
        /\ IF r = "ok"
           THEN /\ taskDefs' = Append(taskDefs,
                        DerivedRevision(taskDefs[ens[p].base_td], ens[p]))
                /\ ens' = [ens EXCEPT ![p].pc = "describe_new",
                                      ![p].new_td_arn = Len(taskDefs) + 1]
           ELSE /\ UNCHANGED taskDefs
                /\ ens' = Raised(p, r)
    /\ UNCHANGED <<sdServices, sdNextId, ecsServices, svcNextId, tasks, taskCap, lostCap, streams, backoff, ehist, notEnsure>>

\* ecs.describe_task_definition(new) for the log line
ensure_describe_new(p) ==
    /\ ens[p].pc = "describe_new"
    /\ \E r \in {"ok"} \cup Faults :
        /\ faults' = Spend(r)
        /\ ens' = IF r = "ok" THEN [ens EXCEPT ![p].pc = "describe_svc"]
                  ELSE Raised(p, r)
    /\ UNCHANGED <<ecsVars, ehist, notEnsure>>

\* ecs.describe_services and the choice of the path
ensure_describe_svc(p) ==
    /\ ens[p].pc = "describe_svc"
    /\ \E r \in {"ok"} \cup Faults :
        /\ faults' = Spend(r)
        /\ LET exists == ServiceExists(EcsDescribe(SvcNameOf(p))) IN
           IF r = "ok"
           THEN /\ ens' = [ens EXCEPT ![p].pc = IF exists THEN "update" ELSE "create",
                                      ![p].attempt = 0]
                /\ ehist' = [ehist EXCEPT
                                ![p] = Enter([@ EXCEPT !.path = IF exists THEN "update"
                                                                 ELSE "create"],
                                             IF exists THEN "update_service"
                                             ELSE "create_service")]
           ELSE /\ ens' = Raised(p, r)
                /\ UNCHANGED ehist
    /\ UNCHANGED <<ecsVars, notEnsure>>

\* ecs.update_service / ecs.delete_service against the named Service
UpdateResponses(name) ==
    IF EcsDescribe(name) = {} THEN {"ServiceNotFoundException"}
    ELSE IF \E s \in EcsDescribe(name) : s.status = "ACTIVE" THEN {"ok"}
    ELSE {"ServiceNotActiveException"}
\* ecs.create_service: names are unique among the Services not yet INACTIVE
CreateResponses(name) ==
    IF EcsLive(name) = {} THEN {"ok"} ELSE {"InvalidParameterException"}

\* an update that leaves the revision out
EcsUpdatedCountOnly(name, td, dc) ==
    {IF s.name = name /\ s.status = "ACTIVE"
     THEN [s EXCEPT !.desiredCount = dc] ELSE s : s \in ecsServices}
EcsUpdated(name, td, dc) ==
    {IF s.name = name /\ s.status = "ACTIVE"
     THEN [s EXCEPT !.taskDefinition = td, !.desiredCount = dc] ELSE s
     : s \in ecsServices}
EcsScaled(name, dc) ==
    {IF s.name = name /\ s.status = "ACTIVE"
     THEN [s EXCEPT !.desiredCount = dc] ELSE s : s \in ecsServices}
EcsAttached(name, arn) ==
    {IF s.name = name /\ s.status = "ACTIVE"
     THEN [s EXCEPT !.registries = {arn}] ELSE s : s \in ecsServices}
EcsCreated(name, td, dc, regs) ==
    {s \in ecsServices : s.name # name} \cup
    {[id |-> svcNextId, name |-> name, status |-> "ACTIVE",
      taskDefinition |-> td, desiredCount |-> dc, registries |-> regs]}

\* UPDATE path: one iteration of the retry loop around ecs.update_service
ensure_update(p) ==
    /\ ens[p].pc = "update"
    /\ \E r \in UpdateResponses(SvcNameOf(p)) \cup Faults :
        /\ faults' = Spend(r)
        /\ IF r = "ok"
           THEN /\ ecsServices' = EcsUpdated(SvcNameOf(p), ens[p].new_td_arn,
                                             ens[p].desired_count)
                /\ ens' = [ens EXCEPT ![p].pc = GuardEntry(ens[p]),
                                      ![p].elapsed = 0, ![p].failures = 0]
                /\ ehist' = [ehist EXCEPT ![p] = Answered(@, r, "ok")]
           ELSE /\ UNCHANGED ecsServices
                /\ IF RetryDecision(r, ens[p].attempt) = "retry"
                   THEN /\ ens' = [ens EXCEPT ![p].attempt = @ + 1]
                        /\ ehist' = [ehist EXCEPT ![p] = Answered(@, r, "retry")]
                   ELSE /\ ens' = Raised(p, r)
                        /\ ehist' = [ehist EXCEPT ![p] = Answered(@, r, "raised")]
    /\ UNCHANGED <<sdServices, sdNextId, taskDefs, svcNextId, tasks, taskCap, lostCap, streams, backoff, notEnsure>>

\* CREATE path: one iteration of the loop around ecs.create_service with the
\* discovery registration
ensure_create(p) ==
    /\ ens[p].pc = "create"
    /\ \E r \in CreateResponses(SvcNameOf(p)) \cup Faults :
        /\ faults' = Spend(r)
        /\ IF r = "ok"
           THEN /\ ecsServices' = EcsCreated(SvcNameOf(p), ens[p].new_td_arn,
                        ens[p].desired_count,
                        IF ens[p].registry_arn # 0 THEN {ens[p].registry_arn} ELSE {})
                /\ svcNextId' = svcNextId + 1
                /\ ens' = [ens EXCEPT ![p].pc = "cosmetic", ![p].polls = 0]
                /\ ehist' = [ehist EXCEPT ![p] = Answered(@, r, "ok")]
           ELSE /\ UNCHANGED <<ecsServices, svcNextId>>
                /\ IF CreateDecision(r) = "retry"
                   THEN /\ ens' = [ens EXCEPT
                                ![p].attempt = @ + 1,
                                ![p].pc = IF ens[p].attempt + 1 < AttemptBudget
                                          THEN "create" ELSE "fallback_create"]
                        /\ ehist' = [ehist EXCEPT
                                ![p] = IF ens[p].attempt + 1 < AttemptBudget
                                       THEN Answered(@, r, "retry")
                                       ELSE [Answered(@, r, "retry") EXCEPT
                                                !.outcome = "fallback"]]
                   ELSE /\ ens' = Raised(p, r)
                        /\ ehist' = [ehist EXCEPT ![p] = Answered(@, r, "raised")]
    /\ UNCHANGED <<sdServices, sdNextId, taskDefs, tasks, taskCap, lostCap, streams, backoff, notEnsure>>

\* fallback: ecs.create_service without the registration, no retry
ensure_fallback_create(p) ==
    /\ ens[p].pc = "fallback_create"
    /\ \E r \in CreateResponses(SvcNameOf(p)) \cup Faults :
        /\ faults' = Spend(r)
        /\ IF r = "ok"
           THEN /\ ecsServices' = EcsCreated(SvcNameOf(p), ens[p].new_td_arn,
                                             ens[p].desired_count, {})
                /\ svcNextId' = svcNextId + 1
                /\ ens' = [ens EXCEPT ![p].pc = "fallback_attach"]
           ELSE /\ UNCHANGED <<ecsServices, svcNextId>>
                /\ ens' = Raised(p, r)
    /\ ehist' = [ehist EXCEPT ![p].fallback = TRUE]
    /\ UNCHANGED <<sdServices, sdNextId, taskDefs, tasks, taskCap, lostCap, streams, backoff, notEnsure>>

\* fallback: ecs.update_service(serviceRegistries=[registry_arn]); a None arn
\* fails the client's parameter validation
ensure_fallback_attach(p) ==
    /\ ens[p].pc = "fallback_attach"
    /\ \E r \in (IF ens[p].registry_arn = 0 THEN {"OtherError"}
                 ELSE UpdateResponses(SvcNameOf(p)) \cup Faults) :
        /\ faults' = IF ens[p].registry_arn = 0 THEN faults ELSE Spend(r)
        /\ IF r = "ok"
           THEN /\ ecsServices' = EcsAttached(SvcNameOf(p), ens[p].registry_arn)
                /\ ens' = [ens EXCEPT ![p].pc = "cosmetic", ![p].polls = 0]
           ELSE /\ UNCHANGED ecsServices
                /\ ens' = Raised(p, r)
    /\ UNCHANGED <<sdServices, sdNextId, taskDefs, svcNextId, tasks, taskCap, lostCap, streams, backoff, ehist, notEnsure>>

\* cosmetic wait: one describe_services(...)["services"][0] of at most six
ensure_cosmetic(p) ==
    /\ ens[p].pc = "cosmetic"
    /\ \E r \in {"ok"} \cup Faults :
        /\ faults' = Spend(r)
        /\ LET svcs == EcsDescribe(SvcNameOf(p)) IN
           ens' = IF r # "ok"
                  THEN Raised(p, r)
                  ELSE IF svcs = {}
                  THEN Raised(p, "IndexError")
                  ELSE IF (CHOOSE s \in svcs : TRUE).taskDefinition = ens[p].new_td_arn
                          \/ ens[p].polls + 1 >= CosmeticPolls
                  THEN [ens EXCEPT ![p].pc = GuardEntry(ens[p]),
                                   ![p].elapsed = 0, ![p].failures = 0]
                  ELSE [ens EXCEPT ![p].polls = @ + 1]
    /\ UNCHANGED <<ecsVars, ehist, notEnsure>>

(* --------------------------- fail-loop guard -------------------------- *)
\* a count that forgets the revision
FailuresInAnyRevision(ts, td_target) ==
    Cardinality({t \in ts : t.lastStatus = "STOPPED"})
\* the tasks of one describe_tasks answer that the guard counts
FailuresIn(ts, td_target) ==
    Cardinality({t \in ts : t.td = td_target /\ t.lastStatus = "STOPPED"})
\* a threshold test that is off by one
ThresholdExceeded(failures) == failures > fail_threshold
\* failures >= fail_threshold
ThresholdReached(failures) == failures >= fail_threshold
\* time.sleep(5) and the remote calls of one poll, in poll intervals
PollDelays == {1, 2}
\* a clock that stands still
LaterNever(elapsed, d) == elapsed
Later(elapsed, d) == IF elapsed + d > FailWindow THEN FailWindow ELSE elapsed + d

\* ecs.list_tasks(serviceName=...) needs the Service to be known
ListTasksResponses(name) ==
    IF EcsDescribe(name) = {} THEN {"ServiceNotFoundException"} ELSE {"ok"}

\* while time.time() - start < fail_window_seconds: describe_services and the
\* healthy test
guard_check(p) ==
    /\ ens[p].pc = "guard_check"
    /\ \E r \in {"ok"} \cup (IF ens[p].elapsed < FailWindow THEN Faults ELSE {}) :
        /\ faults' = Spend(r)
        /\ LET svcs == EcsDescribe(SvcNameOf(p))
               healthy == svcs # {} /\ RunningCount(SvcNameOf(p)) >= ens[p].desired_count
           IN
           IF ~(ens[p].elapsed < FailWindow)
           THEN /\ ens' = [ens EXCEPT ![p].pc = "dns"]
                /\ UNCHANGED ehist
           ELSE IF r # "ok"
           THEN /\ ens' = Raised(p, r)
                /\ UNCHANGED ehist
           ELSE IF svcs = {}
           THEN /\ ens' = Raised(p, "IndexError")
                /\ UNCHANGED ehist
           ELSE /\ ens' = [ens EXCEPT ![p].pc = IF healthy THEN "dns" ELSE "guard_list"]
                /\ ehist' = [ehist EXCEPT ![p].healthy = @ \/ healthy]
    /\ UNCHANGED <<ecsVars, notEnsure>>

\* ecs.list_tasks(desiredStatus="STOPPED"); without task arns the poll ends in
\* the threshold test and time.sleep(5)
guard_list(p) ==
    /\ ens[p].pc = "guard_list"
    /\ \E r \in ListTasksResponses(SvcNameOf(p)) \cup Faults, d \in PollDelays :
        /\ faults' = Spend(r)
        /\ LET arns == ListStopped(SvcNameOf(p)) IN
           ens' = IF r # "ok"
                  THEN Raised(p, r)
                  ELSE IF arns # {}
                  THEN [ens EXCEPT ![p].pc = "guard_count", ![p].task_arns = arns]
                  ELSE [ens EXCEPT ![p].pc = "guard_check", ![p].task_arns = arns,
                                   ![p].elapsed = Later(@, d)]
    /\ UNCHANGED <<ecsVars, ehist, notEnsure>>

\* ecs.describe_tasks, the count, the threshold test, time.sleep(5)
guard_count(p) ==
    /\ ens[p].pc = "guard_count"
    /\ \E r \in {"ok"} \cup Faults, d \in PollDelays :
        /\ faults' = Spend(r)
        /\ LET ts == {t \in tasks : t.id \in ens[p].task_arns}
               f  == ens[p].failures + FailuresIn(ts, ens[p].new_td_arn)
           IN
           IF r # "ok"
           THEN /\ ens' = Raised(p, r)
                /\ UNCHANGED ehist
           ELSE /\ ens' = [ens EXCEPT ![p].failures = f,
                               ![p].pc = IF ThresholdReached(f) THEN "guard_stop"
                                         ELSE "guard_check",
                               ![p].elapsed = IF ThresholdReached(f) THEN @
                                              ELSE Later(@, d)]
                /\ ehist' = [ehist EXCEPT
                                ![p].oldseen = @ \/ \E t \in ts :
                                    t.td # ens[p].new_td_arn /\ t.lastStatus = "STOPPED"]
    /\ UNCHANGED <<ecsVars, notEnsure>>

\* an auto-stop that removes the Service instead of scaling it
guard_stop_deleting(p) ==
    /\ ens[p].pc = "guard_stop"
    /\ \E r \in UpdateResponses(SvcNameOf(p)) \cup Faults :
        /\ faults' = Spend(r)
        /\ ecsServices' = IF r = "ok" THEN ecsServices \ EcsDescribe(SvcNameOf(p))
                          ELSE ecsServices
        /\ ens' = [ens EXCEPT ![p].pc = "dns"]
        /\ ehist' = [ehist EXCEPT ![p].forced = TRUE]
    /\ UNCHANGED <<sdServices, sdNextId, taskDefs, svcNextId, tasks, taskCap, lostCap, streams, backoff, notEnsure>>

\* auto-stop: ecs.update_service(desiredCount=0), any exception swallowed
guard_stop(p) ==
    /\ ens[p].pc = "guard_stop"
    /\ \E r \in UpdateResponses(SvcNameOf(p)) \cup Faults :
        /\ faults' = Spend(r)
        /\ ecsServices' = IF r = "ok" THEN EcsScaled(SvcNameOf(p), 0) ELSE ecsServices
        /\ ens' = [ens EXCEPT ![p].pc = "dns"]
        /\ ehist' = [ehist EXCEPT ![p].forced = TRUE]
    /\ UNCHANGED <<sdServices, sdNextId, taskDefs, svcNextId, tasks, taskCap, lostCap, streams, backoff, notEnsure>>

\* router_dns_name: sd.get_namespace and the name
ensure_dns(p) ==
    /\ ens[p].pc = "dns"
    /\ \E r \in {"ok"} \cup Faults :
        /\ faults' = Spend(r)
        /\ ens' = IF r = "ok"
                  THEN Returned(p, router_dns_name(SvcNameOf(p)))
                  ELSE Raised(p, r)
    /\ UNCHANGED <<ecsVars, ehist, notEnsure>>

ensure_router_service(p) ==
    \/ ensure_start(p) \/ ensure_sd_create(p) \/ ensure_sd_list(p)
    \/ ensure_list_td(p) \/ ensure_describe_base(p) \/ ensure_register_td(p)
    \/ ensure_describe_new(p) \/ ensure_describe_svc(p)
    \/ ensure_update(p) \/ ensure_create(p) \/ ensure_cosmetic(p)
    \/ guard_check(p) \/ guard_list(p) \/ guard_count(p) \/ guard_stop(p)
    \/ ensure_dns(p)
ensure_fallback(p) == ensure_fallback_create(p) \/ ensure_fallback_attach(p)

(* ------------------------------ platform ------------------------------ *)
\* the service scheduler starts a task of the Service's current revision
platform_launch ==
    /\ Cardinality(tasks) < taskCap
    /\ \E s \in ecsServices :
        /\ s.status = "ACTIVE"
        /\ Cardinality({t \in tasks : t.svc = s.name /\ t.desiredStatus = "RUNNING"})
               < s.desiredCount
        /\ tasks' = tasks \cup {[id |-> Cardinality(tasks) + 1, svc |-> s.name,
                                 td |-> s.taskDefinition, desiredStatus |-> "RUNNING",
                                 lastStatus |-> "RUNNING"]}
    /\ UNCHANGED <<sdServices, sdNextId, taskDefs, ecsServices, svcNextId, taskCap, lostCap, streams, backoff, faults,
                   ensVars, notEnsure>>

\* a task is told to stop (its container exited, it is replaced or scaled in)
platform_stop ==
    /\ \E t \in tasks :
        /\ t.desiredStatus = "RUNNING"
        /\ tasks' = (tasks \ {t}) \cup {[t EXCEPT !.desiredStatus = "STOPPED"]}
    /\ UNCHANGED <<sdServices, sdNextId, taskDefs, ecsServices, svcNextId, taskCap, lostCap, streams, backoff, faults,
                   ensVars, notEnsure>>

\* a stopping task reaches STOPPED
platform_stopped ==
    /\ \E t \in tasks :
        /\ t.desiredStatus = "STOPPED" /\ t.lastStatus = "RUNNING"
        /\ tasks' = (tasks \ {t}) \cup {[t EXCEPT !.lastStatus = "STOPPED"]}
    /\ UNCHANGED <<sdServices, sdNextId, taskDefs, ecsServices, svcNextId, taskCap, lostCap, streams, backoff, faults,
                   ensVars, notEnsure>>

\* a deleted Service is INACTIVE once its tasks are gone, and is later forgotten
platform_retire ==
    /\ \E s \in ecsServices :
        /\ s.status \in {"DRAINING", "INACTIVE"}
        /\ s.status = "DRAINING" => RunningCount(s.name) = 0
        /\ ecsServices' = IF s.status = "DRAINING"
                          THEN (ecsServices \ {s}) \cup {[s EXCEPT !.status = "INACTIVE"]}
                          ELSE ecsServices \ {s}
    /\ UNCHANGED <<sdServices, sdNextId, taskDefs, svcNextId, tasks, taskCap, lostCap, streams, backoff, faults,
                   ensVars, notEnsure>>

(* ----------------------- delete_router_service ------------------------ *)
DelCall(name) ==
    [pc |-> "idle", service_name |-> name, polls |-> 0, err |-> "", follows |-> {}]
DelHist0 == [absent |-> FALSE, gone |-> FALSE, scaled |-> FALSE, deleted |-> FALSE]

\* the handlers of delete_router_service: these codes mean "already gone"
Tolerated(code) == code \in {"ClusterNotFoundException", "ServiceNotFoundException"}

\* ecs.delete_service(force=True)
DeleteResponses(name) ==
    IF EcsDescribe(name) = {} THEN {"ServiceNotFoundException"}
    ELSE IF \E s \in EcsDescribe(name) : s.status = "ACTIVE" THEN {"ok"}
    ELSE {"ok", "ServiceNotFoundException"}

\* ecs.update_service(desiredCount=0) and its handler
delete_scale(d) ==
    /\ del[d].pc = "idle"
    /\ \A q \in del[d].follows : CallOver(q)
    /\ \E r \in UpdateResponses(del[d].service_name) \cup Faults :
        /\ faults' = Spend(r)
        /\ ecsServices' = IF r = "ok" THEN EcsScaled(del[d].service_name, 0)
                          ELSE ecsServices
        /\ del' = IF r = "ok" THEN [del EXCEPT ![d].pc = "drain", ![d].polls = 0]
                  ELSE IF IsClientError(r) /\ Tolerated(r)
                  THEN [del EXCEPT ![d].pc = "done"]
                  ELSE [del EXCEPT ![d].pc = "raised", ![d].err = r]
        /\ dhist' = [dhist EXCEPT
                        ![d].absent = (EcsLive(del[d].service_name) = {}),
                        ![d].scaled = (r = "ok")]
    /\ UNCHANGED <<sdServices, sdNextId, taskDefs, svcNextId, tasks, taskCap, lostCap, streams, backoff, notDelete>>

\* a drain poll that goes on until no task runs
delete_drain_until_empty(d) ==
    /\ del[d].pc = "drain"
    /\ \E r \in {"ok"} \cup Faults :
        /\ faults' = Spend(r)
        /\ LET svcs == EcsDescribe(del[d].service_name) IN
           del' = IF r # "ok"
                  THEN [del EXCEPT ![d].pc = "raised", ![d].err = r]
                  ELSE IF svcs = {}
                  THEN [del EXCEPT ![d].pc = "raised", ![d].err = "IndexError"]
                  ELSE IF RunningCount(del[d].service_name) = 0
                  THEN [del EXCEPT ![d].pc = "delete", ![d].polls = @ + 1]
                  ELSE [del EXCEPT ![d].polls = @ + 1]
        /\ dhist' = [dhist EXCEPT
                        ![d].gone = @ \/ (EcsLive(del[d].service_name) = {})]
    /\ UNCHANGED <<ecsVars, notDelete>>

\* one describe_services of the drain poll: d.get("services", [{}])[0]
delete_drain(d) ==
    /\ del[d].pc = "drain"
    /\ \E r \in {"ok"} \cup Faults :
        /\ faults' = Spend(r)
        /\ LET svcs == EcsDescribe(del[d].service_name) IN
           del' = IF r # "ok"
                  THEN [del EXCEPT ![d].pc = "raised", ![d].err = r]
                  ELSE IF svcs = {}
                  THEN [del EXCEPT ![d].pc = "raised", ![d].err = "IndexError"]
                  ELSE IF RunningCount(del[d].service_name) = 0
                          \/ del[d].polls + 1 >= DrainPolls
                  THEN [del EXCEPT ![d].pc = "delete", ![d].polls = @ + 1]
                  ELSE [del EXCEPT ![d].polls = @ + 1]
        /\ dhist' = [dhist EXCEPT
                        ![d].gone = @ \/ (EcsLive(del[d].service_name) = {})]
    /\ UNCHANGED <<ecsVars, notDelete>>

\* ecs.delete_service(force=True) and its handler
delete_delete(d) ==
    /\ del[d].pc = "delete"
    /\ \E r \in DeleteResponses(del[d].service_name) \cup Faults :
        /\ faults' = Spend(r)
        /\ IF r = "ok"
           THEN /\ ecsServices' =
                     {IF s.name = del[d].service_name /\ s.status = "ACTIVE"
                      THEN [s EXCEPT !.status = "DRAINING", !.desiredCount = 0]
                      ELSE s : s \in ecsServices}
                /\ tasks' = {IF t.svc = del[d].service_name
                             THEN [t EXCEPT !.desiredStatus = "STOPPED"] ELSE t
                             : t \in tasks}
                /\ del' = [del EXCEPT ![d].pc = "done"]
           ELSE /\ UNCHANGED <<ecsServices, tasks>>
                /\ del' = IF IsClientError(r) /\ Tolerated(r)
                          THEN [del EXCEPT ![d].pc = "done"]
                          ELSE [del EXCEPT ![d].pc = "raised", ![d].err = r]
        /\ dhist' = [dhist EXCEPT
                        ![d].gone = @ \/ (EcsLive(del[d].service_name) = {}),
                        ![d].deleted = (r = "ok")]
    /\ UNCHANGED <<sdServices, sdNextId, taskDefs, svcNextId, taskCap, lostCap, streams, backoff, notDelete>>

delete_router_service(d) == delete_scale(d) \/ delete_drain(d) \/ delete_delete(d)

(* ---------------------- submit_builder_and_wait ----------------------- *)
\* range(50) pages of get_log_events
LogPageLimit == 50
\* lines[-400:]
TailLimit == 400
\* Python's None and an int as values of one kind: <<>> is None, <<c>> is c
None == <<>>
Some(c) == <<c>>
ExitCodes == {0, 1, 137}
\* a log stream of more pages than the fetch reads, that hold more lines than
\* the tail keeps
LongLog ==
    [pg \in 1..LongLogPages |->
        [i \in 1..LongPageLines |-> "l" \o ToString((pg - 1) * LongPageLines + i)]]
\* what a log stream may hold: pages of events, oldest first
LogChoices == {<< >>, << <<"l1">> >>, << <<"l1", "l2">>, <<"l3">> >>}
MissingExitLine == "[builder] missing exit code in ECS describe_tasks"
LogsFailedLine == "[logs] unable to fetch"
RunFailureLine == "run_task failure"
\* a refusal that leaves the log empty
RunFailureLogEmpty == << >>
\* [f"run_task failure: {failures}"]
RunFailureLog == <<RunFailureLine>>

BldCall(is_arn, image) ==
    [pc |-> "idle", is_arn |-> is_arn, image |-> image, attempt |-> 0,
     task_arn |-> 0, exit_code |-> None, lines |-> << >>, token |-> None,
     pages |-> 0, ok |-> FALSE, tail |-> << >>, err |-> ""]
BldHist0 ==
    [site |-> "", outcome |-> "", last |-> "", calls |-> 0, transients |-> 0,
     sleeps |-> 0, refused |-> FALSE, waited |-> FALSE, described |-> FALSE,
     reported |-> None, fetched |-> 0]
BldFinished == bld.pc \in {"done", "raised"}
BldRaised(e) == [bld EXCEPT !.pc = "raised", !.err = e]
BldReturned(ok, tail) == [bld EXCEPT !.pc = "done", !.ok = ok, !.tail = tail]
\* a cut that keeps the oldest lines
LogHead(lines) ==
    IF Len(lines) <= TailLimit THEN lines ELSE SubSeq(lines, 1, TailLimit)
\* lines[-400:]
LogTail(lines) ==
    IF Len(lines) <= TailLimit THEN lines
    ELSE SubSeq(lines, Len(lines) - TailLimit + 1, Len(lines))
\* not exit_code
ExitIsFalsy(exit_code) == exit_code \in {None, Some(0)}
\* exit_code == 0
ExitIsZero(exit_code) == exit_code = Some(0)

\* _is_taskdef_arn(task_family) and the entry of _ensure_taskdef_exists
builder_start ==
    /\ bld.pc = "idle"
    /\ bld' = [bld EXCEPT !.pc = IF bld.is_arn THEN "run_task" ELSE "td_list",
                          !.attempt = 0]
    /\ bhist' = Enter(bhist, IF bld.is_arn THEN "run_task" ELSE "list_task_definitions")
    /\ UNCHANGED <<ecsVars, faults, ensVars, delVars, mainVars, bTaskDefs, jobs>>

\* _ensure_taskdef_exists: one iteration of the loop around list_task_definitions
builder_td_list ==
    /\ bld.pc = "td_list"
    /\ \E r \in {"ok"} \cup Faults :
        /\ faults' = Spend(r)
        /\ IF r = "ok"
           THEN IF bTaskDefs > 0
                THEN /\ bld' = [bld EXCEPT !.pc = "run_task", !.attempt = 0]
                     /\ bhist' = Enter(Answered(bhist, r, "ok"), "run_task")
                ELSE IF bld.image = ""
                THEN /\ bld' = BldRaised("ValueError")
                     /\ bhist' = Answered(bhist, r, "ok")
                ELSE /\ bld' = [bld EXCEPT !.pc = "td_register", !.attempt = 0]
                     /\ bhist' = Enter(Answered(bhist, r, "ok"), "register_task_definition")
           ELSE IF RetryDecision(r, bld.attempt) = "retry"
                THEN /\ bld' = [bld EXCEPT !.attempt = @ + 1]
                     /\ bhist' = Answered(bhist, r, "retry")
                ELSE /\ bld' = BldRaised(r)
                     /\ bhist' = Answered(bhist, r, "raised")
    /\ UNCHANGED <<ecsVars, ensVars, delVars, mainVars, bTaskDefs, jobs>>

\* _ensure_taskdef_exists: one iteration of the loop around
\* register_task_definition
builder_td_register ==
    /\ bld.pc = "td_register"
    /\ \E r \in {"ok"} \cup Faults :
        /\ faults' = Spend(r)
        /\ IF r = "ok"
           THEN /\ bTaskDefs' = bTaskDefs + 1
                /\ bld' = [bld EXCEPT !.pc = "run_task", !.attempt = 0]
                /\ bhist' = Enter(Answered(bhist, r, "ok"), "run_task")
           ELSE /\ UNCHANGED bTaskDefs
                /\ IF RetryDecision(r, bld.attempt) = "retry"
                   THEN /\ bld' = [bld EXCEPT !.attempt = @ + 1]
                        /\ bhist' = Answered(bhist, r, "retry")
                   ELSE /\ bld' = BldRaised(r)
                        /\ bhist' = Answered(bhist, r, "raised")
    /\ UNCHANGED <<ecsVars, ensVars, delVars, mainVars, jobs>>

\* one iteration of the loop around ecs.run_task(count=1), which carries no
\* client token, and the test of the failures the answer reports. The request
\* may have been accepted although its answer was lost
builder_run_task ==
    /\ bld.pc = "run_task"
    /\ \E r \in {"ok", "failures"} \cup Faults, log \in streams,
          accepted \in BOOLEAN :
        /\ accepted => r = "ok" \/ (LostResponse(r) /\ Cardinality(jobs) < lostCap)
        /\ accepted /\ r # "ok" => log = CHOOSE l \in streams : TRUE
        /\ r = "ok" => accepted
        /\ faults' = Spend(r)
        /\ jobs' = IF accepted
                   THEN jobs \cup {[id |-> Cardinality(jobs) + 1,
                                    lastStatus |-> "RUNNING", exit |-> None,
                                    log |-> log]}
                   ELSE jobs
        /\ IF r = "ok"
           THEN /\ bld' = [bld EXCEPT !.pc = "wait", !.task_arn = Cardinality(jobs) + 1]
                /\ bhist' = Answered(bhist, r, "ok")
           ELSE IF r = "failures"
           THEN /\ bld' = BldReturned(FALSE, RunFailureLog)
                /\ bhist' = [Answered(bhist, "ok", "ok") EXCEPT !.refused = TRUE]
           ELSE IF RetryDecision(r, bld.attempt) = "retry"
           THEN /\ bld' = [bld EXCEPT !.attempt = @ + 1]
                /\ bhist' = Answered(bhist, r, "retry")
           ELSE /\ bld' = BldRaised(r)
                /\ bhist' = Answered(bhist, r, "raised")
    /\ UNCHANGED <<ecsVars, ensVars, delVars, mainVars, bTaskDefs>>

TheJob == CHOOSE j \in jobs : j.id = bld.task_arn

\* waiter.wait(tasks_stopped): returns once the task is STOPPED, or gives up
\* with WaiterError, which is passed over
builder_wait ==
    /\ bld.pc = "wait"
    /\ \E r \in (IF TheJob.lastStatus = "STOPPED" THEN {"ok"} ELSE {"WaiterError"})
                \cup Faults :
        /\ faults' = Spend(r)
        /\ bld' = IF r \in {"ok", "WaiterError"} \/ IsClientError(r)
                  THEN [bld EXCEPT !.pc = "describe"]
                  ELSE BldRaised(r)
        /\ bhist' = [bhist EXCEPT !.waited = TRUE]
    /\ UNCHANGED <<ecsVars, ensVars, delVars, mainVars, bTaskDefs, jobs>>

\* ecs.describe_tasks and the builder container's exitCode
builder_describe ==
    /\ bld.pc = "describe"
    /\ \E r \in {"ok"} \cup Faults :
        /\ faults' = Spend(r)
        /\ bld' = IF r = "ok"
                  THEN [bld EXCEPT !.pc = "logs", !.exit_code = TheJob.exit,
                                   !.lines = << >>, !.token = None, !.pages = 0]
                  ELSE BldRaised(r)
        /\ bhist' = [bhist EXCEPT !.described = (r = "ok"),
                                   !.reported = IF r = "ok" THEN TheJob.exit ELSE @]
    /\ UNCHANGED <<ecsVars, ensVars, delVars, mainVars, bTaskDefs, jobs>>

\* logs.get_log_events(startFromHead=True, nextToken=token): the page after
\* the token, and the token after it (the same token at the end of the stream)
LogPosition(token) == IF token = None THEN 0 ELSE token[1]
LogEvents(log, token) ==
    IF LogPosition(token) < Len(log) THEN log[LogPosition(token) + 1] ELSE << >>
LogNextToken(log, token) ==
    IF LogPosition(token) < Len(log) THEN Some(LogPosition(token) + 1)
    ELSE Some(LogPosition(token))

\* one page of the log fetch; a ClientError ends it with a diagnostic line
builder_logs ==
    /\ bld.pc = "logs"
    /\ \E r \in {"ok"} \cup Faults :
        /\ faults' = Spend(r)
        /\ LET nxt == LogNextToken(TheJob.log, bld.token) IN
           bld' = IF r = "ok"
                  THEN [bld EXCEPT
                          !.lines = @ \o LogEvents(TheJob.log, bld.token),
                          !.token = nxt, !.pages = @ + 1,
                          !.pc = IF nxt = bld.token \/ bld.pages + 1 >= LogPageLimit
                                 THEN "finish" ELSE "logs"]
                  ELSE IF IsClientError(r)
                  THEN [bld EXCEPT !.lines = Append(@, LogsFailedLine),
                                   !.pc = "finish"]
                  ELSE BldRaised(r)
        /\ bhist' = [bhist EXCEPT !.fetched = @ + 1]
    /\ UNCHANGED <<ecsVars, ensVars, delVars, mainVars, bTaskDefs, jobs>>

\* the missing-exit-code line and return (exit_code == 0), lines[-400:]
builder_finish ==
    /\ bld.pc = "finish"
    /\ LET lines == IF bld.exit_code = None THEN Append(bld.lines, MissingExitLine)
                    ELSE bld.lines
       IN  bld' = BldReturned(ExitIsZero(bld.exit_code), LogTail(lines))
    /\ UNCHANGED <<ecsVars, faults, ensVars, delVars, mainVars, bTaskDefs, jobs, bhist>>

submit_builder_and_wait ==
    \/ builder_start \/ builder_td_list \/ builder_td_register \/ builder_run_task
    \/ builder_wait \/ builder_describe \/ builder_logs \/ builder_finish

\* a builder task stops: its container exited with a code, or never started
platform_job_stops ==
    /\ \E j \in jobs, e \in {Some(c) : c \in ExitCodes} \cup {None} :
        /\ j.lastStatus = "RUNNING"
        /\ jobs' = (jobs \ {j}) \cup {[j EXCEPT !.lastStatus = "STOPPED", !.exit = e]}
    /\ UNCHANGED <<ecsVars, faults, ensVars, delVars, mainVars, bTaskDefs, bld, bhist>>

(* ------------------- main.py: warm-up and idle reaper ------------------ *)
\* the env argument main.py passes to ensure_router_service
CallerEnv(sid) ==
    [k \in {"AWS_REGION", "GRAPHS_BUCKET", "GRAPH_SCENARIO_ID"} |->
        IF k = "AWS_REGION" THEN AWS_REGION
        ELSE IF k = "GRAPHS_BUCKET" THEN "bucket" ELSE sid]
\* a request handler of /api/router_warmup in a threadpool thread
WarmCall(rid) == [pc |-> "idle", rid |-> rid, status |-> 0, follows |-> {}]
\* the ensure_router_service call a handler makes on ServiceNotFoundException
EnsOf(w) == IF w = "w1" THEN "e1" ELSE "e2"
ReaperIdle == [pc |-> "sleep", now |-> 0, seen |-> EmptyDict, stale |-> {}, rid |-> ""]
\* what one tick of the reaper met: the scenarios stale when it began, its
\* stale list, those it issued desiredCount=0 for, those whose update_service
\* raised, those a handler recorded since it began
RHist0 ==
    [ticks |-> 0, ended |-> FALSE, stale0 |-> {}, listed |-> {}, issued |-> {},
     failed |-> {}, touched |-> {}, scaledFresh |-> FALSE, removedFresh |-> FALSE]
\* now - ts > IDLE_SECS
IsStale(t, ts) == t - ts > IDLE_SECS
StaleIn(hits, t) == {rid \in DOMAIN hits : IsStale(t, hits[rid])}
DictPop(d, k) == [x \in DOMAIN d \ {k} |-> d[x]]

\* time passes
clock_tick ==
    /\ now < MaxTime
    /\ now' = now + 1
    /\ UNCHANGED <<ecsVars, faults, ensVars, delVars, bldVars, _last_hit, reaper,
                   warm, rhist>>

\* now = time.time(); _last_hit[rid] = now
warmup_record(w) ==
    /\ warm[w].pc = "idle"
    /\ \A q \in warm[w].follows : CallOver(q)
    /\ _last_hit' = DictUpdate(_last_hit, warm[w].rid, now)
    /\ warm' = [warm EXCEPT ![w].pc = "update"]
    /\ rhist' = [rhist EXCEPT !.touched = @ \cup {warm[w].rid}]
    /\ UNCHANGED <<ecsVars, faults, ensVars, delVars, bldVars, now, reaper>>

\* ecs.update_service(desiredCount=1) and the handlers of the try
warmup_update(w) ==
    /\ warm[w].pc = "update"
    /\ \E r \in UpdateResponses(ServiceName(service_prefix, warm[w].rid)) \cup Faults :
        /\ faults' = Spend(r)
        /\ ecsServices' = IF r = "ok"
                          THEN EcsScaled(ServiceName(service_prefix, warm[w].rid), 1)
                          ELSE ecsServices
        /\ warm' = IF r = "ok" THEN [warm EXCEPT ![w].pc = "wait"]
                   ELSE IF r = "ServiceNotFoundException"
                   THEN [warm EXCEPT ![w].pc = "ensure"]
                   ELSE [warm EXCEPT ![w].pc = "done", ![w].status = 503]
        /\ ens' = IF r = "ServiceNotFoundException"
                  THEN [ens EXCEPT ![EnsOf(w)] =
                           EnsCall(warm[w].rid, ROUTER_IMAGE, 1, CallerEnv(warm[w].rid))]
                  ELSE ens
    /\ UNCHANGED <<sdServices, sdNextId, taskDefs, svcNextId, tasks, taskCap, lostCap, streams, backoff, ehist,
                   delVars, bldVars, now, _last_hit, reaper, rhist>>

\* waiter.wait(services_stable): WaiterError is caught by except Exception
warmup_wait(w) ==
    /\ warm[w].pc = "wait"
    /\ \E r \in {"ok", "WaiterError"} :
        warm' = IF r = "ok" THEN [warm EXCEPT ![w].pc = "tcp"]
                ELSE [warm EXCEPT ![w].pc = "done", ![w].status = 503]
    /\ UNCHANGED <<ecsVars, faults, ensVars, delVars, bldVars, now, _last_hit, reaper,
                   rhist>>

\* ensure_router_service has returned, or raised out of the except clause
warmup_ensured(w) ==
    /\ warm[w].pc = "ensure"
    /\ EnsFinished(EnsOf(w))
    /\ warm' = IF ens[EnsOf(w)].pc = "done" THEN [warm EXCEPT ![w].pc = "tcp"]
               ELSE [warm EXCEPT ![w].pc = "done", ![w].status = 500]
    /\ UNCHANGED <<ecsVars, faults, ensVars, delVars, bldVars, now, _last_hit, reaper,
                   rhist>>

\* the _tcp_check loop: 204 once the router answers, 504 after 300 s
warmup_tcp(w) ==
    /\ warm[w].pc = "tcp"
    /\ \E st \in (IF RunningCount(ServiceName(service_prefix, warm[w].rid)) > 0
                  THEN {204} ELSE {}) \cup {504} :
        warm' = [warm EXCEPT ![w].pc = "done", ![w].status = st]
    /\ UNCHANGED <<ecsVars, faults, ensVars, delVars, bldVars, now, _last_hit, reaper,
                   rhist>>

router_warmup(w) ==
    \/ warmup_record(w) \/ warmup_update(w) \/ warmup_wait(w)
    \/ warmup_ensured(w) \/ warmup_tcp(w)

\* a tick begins: now = time.time(), and the comprehension starts to iterate
\* over _last_hit.items()
reaper_scan_begin ==
    /\ reaper.pc = "sleep"
    /\ reaper' = [reaper EXCEPT !.pc = "scan", !.now = now, !.seen = _last_hit]
    /\ rhist' = [rhist EXCEPT !.ticks = 1, !.ended = FALSE,
                              !.stale0 = StaleIn(_last_hit, now),
                              !.listed = {}, !.issued = {}, !.failed = {},
                              !.touched = {}]
    /\ UNCHANGED <<ecsVars, faults, ensVars, delVars, bldVars, now, _last_hit, warm>>

\* the comprehension ends. A key inserted by a handler thread since it began
\* makes the iterator raise RuntimeError, which the outer handler of the loop
\* logs; a timestamp rewritten since it began was read before or after
reaper_scan_end ==
    /\ reaper.pc = "scan"
    /\ IF DOMAIN _last_hit # DOMAIN reaper.seen
       THEN /\ reaper' = [ReaperIdle EXCEPT !.pc = "sleep"]
            /\ rhist' = [rhist EXCEPT !.ended = TRUE]
       ELSE \E read \in [DOMAIN _last_hit -> BOOLEAN] :
              LET ts == [rid \in DOMAIN _last_hit |->
                            IF read[rid] THEN _last_hit[rid] ELSE reaper.seen[rid]]
                  stale == StaleIn(ts, reaper.now)
              IN  /\ reaper' = IF stale = {}
                               THEN [ReaperIdle EXCEPT !.pc = "sleep"]
                               ELSE [reaper EXCEPT !.pc = "update", !.stale = stale,
                                                   !.seen = EmptyDict]
                  /\ rhist' = [rhist EXCEPT !.ended = (stale = {}), !.listed = stale]
    /\ UNCHANGED <<ecsVars, faults, ensVars, delVars, bldVars, now, _last_hit, warm>>

\* a loop whose first failed update_service ends the tick
reaper_update_abort ==
    /\ reaper.pc = "update"
    /\ \E rid \in reaper.stale :
       \E r \in UpdateResponses(ServiceName(service_prefix, rid)) \cup Faults :
        /\ faults' = Spend(r)
        /\ ecsServices' = IF r = "ok"
                          THEN EcsScaled(ServiceName(service_prefix, rid), 0)
                          ELSE ecsServices
        /\ reaper' = IF r = "ok" THEN [reaper EXCEPT !.pc = "pop", !.rid = rid]
                     ELSE [ReaperIdle EXCEPT !.pc = "sleep"]
        /\ rhist' = [rhist EXCEPT
                        !.ended = (r # "ok"),
                        !.issued = @ \cup {rid},
                        !.failed = IF r = "ok" THEN @ ELSE @ \cup {rid},
                        !.scaledFresh = @ \/ (/\ r = "ok"
                                              /\ rid \in DOMAIN _last_hit
                                              /\ ~IsStale(now, _last_hit[rid]))]
    /\ UNCHANGED <<sdServices, sdNextId, taskDefs, svcNextId, tasks, taskCap, lostCap, streams, backoff, ensVars,
                   delVars, bldVars, now, _last_hit, warm>>

\* for rid in stale: ecs.update_service(desiredCount=0), any exception logged
reaper_update ==
    /\ reaper.pc = "update"
    /\ \E rid \in reaper.stale :
       \E r \in UpdateResponses(ServiceName(service_prefix, rid)) \cup Faults :
        /\ faults' = Spend(r)
        /\ ecsServices' = IF r = "ok"
                          THEN EcsScaled(ServiceName(service_prefix, rid), 0)
                          ELSE ecsServices
        /\ reaper' = [reaper EXCEPT !.pc = "pop", !.rid = rid]
        /\ rhist' = [rhist EXCEPT
                        !.issued = @ \cup {rid},
                        !.failed = IF r = "ok" THEN @ ELSE @ \cup {rid},
                        !.scaledFresh = @ \/ (/\ r = "ok"
                                              /\ rid \in DOMAIN _last_hit
                                              /\ ~IsStale(now, _last_hit[rid]))]
    /\ UNCHANGED <<sdServices, sdNextId, taskDefs, svcNextId, tasks, taskCap, lostCap, streams, backoff, ensVars,
                   delVars, bldVars, now, _last_hit, warm>>

\* _last_hit.pop(rid, None), and the end of the tick after the last of them
reaper_pop ==
    /\ reaper.pc = "pop"
    /\ _last_hit' = DictPop(_last_hit, reaper.rid)
    /\ reaper' = IF reaper.stale = {reaper.rid}
                 THEN [ReaperIdle EXCEPT !.pc = "sleep"]
                 ELSE [reaper EXCEPT !.pc = "update", !.stale = @ \ {reaper.rid},
                                     !.rid = ""]
    /\ rhist' = [rhist EXCEPT
                    !.ended = (reaper.stale = {reaper.rid}),
                    !.removedFresh = @ \/ (/\ reaper.rid \in DOMAIN _last_hit
                                           /\ ~IsStale(now, _last_hit[reaper.rid]))]
    /\ UNCHANGED <<ecsVars, faults, ensVars, delVars, bldVars, now, warm>>

_idle_reaper_loop ==
    reaper_scan_begin \/ reaper_scan_end \/ reaper_update \/ reaper_pop

(* --------------------------- specifications --------------------------- *)
\* no call of the operation in this behaviour
EnsureOff ==
    /\ ens = [p \in EnsProcs |-> [EnsCall("alpha", "img:v1", 1, EmptyDict)
                                     EXCEPT !.pc = "off"]]
    /\ ehist = [p \in EnsProcs |-> EnsHist0]
DeleteOff ==
    /\ del = [d \in DelProcs |-> [DelCall("router-alpha") EXCEPT !.pc = "off"]]
    /\ dhist = [d \in DelProcs |-> DelHist0]
\* no builder call in this behaviour
BuilderOff ==
    /\ bTaskDefs = 1 /\ jobs = {}
    /\ bld = [BldCall(FALSE, "") EXCEPT !.pc = "off"]
    /\ bhist = BldHist0
\* no request handler and no reaper in this behaviour
MainOff ==
    /\ now = 0 /\ _last_hit = EmptyDict
    /\ reaper = [ReaperIdle EXCEPT !.pc = "off"]
    /\ warm = [w \in WarmProcs |-> [WarmCall("alpha") EXCEPT !.pc = "off"]]
    /\ rhist = RHist0

FreshPlane ==
    /\ sdServices = {} /\ sdNextId = 1
    /\ taskDefs = <<BaseRevision>>
    /\ ecsServices = {} /\ svcNextId = 1
    /\ tasks = {}

Platform == platform_launch \/ platform_stop \/ platform_stopped

\* two ensure_router_service calls for one scenario on a fresh system, each
\* started at any moment, the control plane answering without faults
InitEnsure ==
    /\ FreshPlane
    /\ taskCap = 1
    /\ lostCap = 0
    /\ streams = LogChoices
    /\ backoff = BackoffOff
    /\ faults = 0
    /\ \E i \in Images :
         ens = [p \in EnsProcs |->
                  EnsCall("alpha", IF p = "e1" THEN "img:v1" ELSE i, 1,
                          CallerEnv("alpha"))]
    /\ ehist = [p \in EnsProcs |-> EnsHist0]
    /\ DeleteOff /\ BuilderOff /\ MainOff
NextEnsure == (\E p \in EnsProcs : ensure_router_service(p)) \/ Platform
SpecEnsure == InitEnsure /\ [][NextEnsure]_vars


\* one client calling ensure_router_service twice in a row for one scenario
\* on a fresh system (e1, then e2 once e1 is over), without faults
InitSeq ==
    /\ FreshPlane
    /\ taskCap = MaxTasks
    /\ lostCap = 0
    /\ streams = LogChoices
    /\ backoff = BackoffOff
    /\ faults = 0
    /\ \E i \in Images :
         ens = [p \in EnsProcs |->
                  IF p = "e1" THEN EnsCall("alpha", "img:v1", 1, CallerEnv("alpha"))
                  ELSE After(EnsCall("alpha", i, 1, CallerEnv("alpha")), {"e1"})]
    /\ ehist = [p \in EnsProcs |-> EnsHist0]
    /\ DeleteOff /\ BuilderOff /\ MainOff
NextSeq ==
    \/ \E p \in EnsProcs : ensure_router_service(p)
    \/ Platform
SpecSeq == InitSeq /\ [][NextSeq]_vars
\* the same with a call that was made running on to its end
SpecSeqFair == SpecSeq /\ WF_vars(\E p \in EnsProcs : ensure_router_service(p))

\* one operation of build_graph per behaviour, with remote faults: either the
\* builder job, or ensure_router_service followed by a second call for the
\* same scenario
InitFaults ==
    /\ FreshPlane
    /\ taskCap = 1
    /\ lostCap = 0
    /\ streams = LogChoices
    /\ backoff = BackoffOff
    /\ faults = MaxFaults
    /\ DeleteOff /\ MainOff
    /\ \/ /\ EnsureOff
          /\ bTaskDefs \in {0, 1} /\ jobs = {}
          /\ bld \in {BldCall(a, i) : a \in BOOLEAN, i \in {"", "img:builder"}}
          /\ bhist = BldHist0
       \/ /\ BuilderOff
          /\ ens = [p \in EnsProcs |->
                      IF p = "e1" THEN EnsCall("alpha", "img:v1", 1, CallerEnv("alpha"))
                      ELSE After(EnsCall("alpha", "img:v2", 1, CallerEnv("alpha")),
                                 {"e1"})]
          /\ ehist = [p \in EnsProcs |-> EnsHist0]
NextFaults ==
    \/ submit_builder_and_wait
    \/ platform_job_stops
    \/ \E p \in EnsProcs : ensure_router_service(p) \/ ensure_fallback(p)
    \/ Platform
SpecFaults == InitFaults /\ [][NextFaults]_vars

\* delete_graph's calls of delete_router_service for a scenario, two at any
\* moment, after the scenario's Service was ensured or without it ever having
\* been, and a later ensure_router_service for the same scenario
InitDelete ==
    /\ FreshPlane
    /\ taskCap = 1
    /\ lostCap = 0
    /\ streams = LogChoices
    /\ backoff = BackoffOff
    /\ faults = 0
    /\ \E pc \in {"idle", "off"} :
         ens = [p \in EnsProcs |->
                  IF p = "e1"
                  THEN [EnsCall("alpha", "img:v1", 1, CallerEnv("alpha")) EXCEPT !.pc = pc]
                  ELSE After(EnsCall("alpha", "img:v2", 1, CallerEnv("alpha")),
                             DelProcs)]
    /\ ehist = [p \in EnsProcs |-> EnsHist0]
    /\ del = [d \in DelProcs |->
                After(DelCall(ServiceName(service_prefix, "alpha")), {"e1"})]
    /\ dhist = [d \in DelProcs |-> DelHist0]
    /\ BuilderOff /\ MainOff
NextDelete ==
    \/ \E p \in EnsProcs : ensure_router_service(p)
    \/ \E d \in DelProcs : delete_router_service(d)
    \/ Platform
    \/ platform_retire
SpecDelete == InitDelete /\ [][NextDelete]_vars
\* the same with a call that was made running on to its end
SpecDeleteFair ==
    /\ SpecDelete
    /\ \A d \in DelProcs : WF_vars(delete_router_service(d))

\* the application at work: build_graph's ensure_router_service for scenario
\* alpha, twice, then two router_warmup requests at any moment, the first for
\* alpha, and the idle reaper all along, while time passes
InitReaper ==
    /\ FreshPlane
    /\ taskCap = 1
    /\ lostCap = 0
    /\ streams = LogChoices
    /\ backoff = BackoffOff
    /\ faults = 0
    /\ ens = [p \in EnsProcs |->
                After(EnsCall("alpha", ROUTER_IMAGE, 1, CallerEnv("alpha")),
                      IF p = "e1" THEN {} ELSE {"e1"})]
    /\ ehist = [p \in EnsProcs |-> EnsHist0]
    /\ DeleteOff /\ BuilderOff
    /\ now = 0 /\ _last_hit = EmptyDict
    /\ reaper = ReaperIdle
    /\ \E rid \in Scenarios :
         warm = [w \in WarmProcs |->
                   After(WarmCall(IF w = "w1" THEN "alpha" ELSE rid), {"e2"})]
    /\ rhist = RHist0
NextReaper ==
    \/ \E w \in WarmProcs : router_warmup(w)
    \/ _idle_reaper_loop
    \/ clock_tick
    \/ \E p \in EnsProcs : ensure_router_service(p)
    \/ Platform
SpecReaper == InitReaper /\ [][NextReaper]_vars
\* the same with the scheduling the program has: the reaper task started at
\* startup loops for ever, time passes, and a call that was made runs on; a
\* warm-up request may never come
SpecReaperFair ==
    /\ SpecReaper
    /\ WF_vars(_idle_reaper_loop)
    /\ WF_vars(clock_tick)
    /\ WF_vars(\E p \in EnsProcs : ensure_router_service(p))

\* ensure_router_service twice in a row for one scenario, each call with an
\* env of the caller's choosing: any of these keys, with a value of its own
CallerKeys == {"AWS_REGION", "GRAPH_SCENARIO_ID", "JAVA_OPTS"}
CallerValue(k) == "caller-" \o k
EnvChoices ==
    {[k \in {x \in CallerKeys : f[x]} |-> CallerValue(k)] : f \in [CallerKeys -> BOOLEAN]}
InitEnv ==
    /\ FreshPlane
    /\ taskCap = 1
    /\ lostCap = 0
    /\ streams = LogChoices
    /\ backoff = BackoffOff
    /\ faults = 0
    /\ \E env1 \in EnvChoices, env2 \in EnvChoices :
         ens = [p \in EnsProcs |->
                  IF p = "e1" THEN EnsCall("alpha", "img:v1", 1, env1)
                  ELSE After(EnsCall("alpha", "img:v2", 1, env2), {"e1"})]
    /\ ehist = [p \in EnsProcs |-> EnsHist0]
    /\ DeleteOff /\ BuilderOff /\ MainOff
NextEnv ==
    \/ \E p \in EnsProcs : ensure_router_service(p)
    \/ Platform
SpecEnv == InitEnv /\ [][NextEnv]_vars

\* ensure_router_service with or without an image, on a system with or without
\* a base revision of the family, and a second call after it
InitConfig ==
    /\ sdServices = {} /\ sdNextId = 1
    /\ taskDefs \in {<< >>, <<BaseRevision>>}
    /\ ecsServices = {} /\ svcNextId = 1
    /\ tasks = {}
    /\ taskCap = 1
    /\ lostCap = 0
    /\ streams = LogChoices
    /\ backoff = BackoffOff
    /\ faults = 0
    /\ \E image \in {"", "img:v1"} :
         ens = [p \in EnsProcs |->
                  IF p = "e1" THEN EnsCall("alpha", image, 1, CallerEnv("alpha"))
                  ELSE After(EnsCall("alpha", "img:v2", 1, CallerEnv("alpha")), {"e1"})]
    /\ ehist = [p \in EnsProcs |-> EnsHist0]
    /\ DeleteOff /\ BuilderOff /\ MainOff
NextConfig ==
    \/ \E p \in EnsProcs : ensure_router_service(p)
    \/ Platform
SpecConfig == InitConfig /\ [][NextConfig]_vars

\* submit_builder_and_wait with remote faults, among them answers lost after
\* the control plane accepted the request
InitLaunch ==
    /\ FreshPlane
    /\ taskCap = 0
    /\ lostCap = MaxLost
    /\ streams = LogChoices
    /\ backoff = BackoffOff
    /\ faults = MaxFaults
    /\ EnsureOff /\ DeleteOff /\ MainOff
    /\ bTaskDefs \in {0, 1} /\ jobs = {}
    /\ bld \in {BldCall(a, i) : a \in BOOLEAN, i \in {"", "img:builder"}}
    /\ bhist = BldHist0
NextLaunch ==
    \/ submit_builder_and_wait
    \/ platform_job_stops
SpecLaunch == InitLaunch /\ [][NextLaunch]_vars

\* a namespace that other services fill beyond one page of list_services:
\* ensure_router_service, delete_router_service, and ensure_router_service
\* again for the scenario
InitCrowded ==
    /\ sdServices = {SdOthers} /\ sdNextId = 1
    /\ taskDefs = <<BaseRevision>>
    /\ ecsServices = {} /\ svcNextId = 1
    /\ tasks = {}
    /\ taskCap = 1
    /\ lostCap = 0
    /\ streams = LogChoices
    /\ backoff = BackoffOff
    /\ faults = 0
    /\ ens = [p \in EnsProcs |->
                IF p = "e1" THEN EnsCall("alpha", "img:v1", 1, CallerEnv("alpha"))
                ELSE After(EnsCall("alpha", "img:v2", 1, CallerEnv("alpha")), {"d1"})]
    /\ ehist = [p \in EnsProcs |-> EnsHist0]
    /\ del = [d \in DelProcs |->
                IF d = "d1"
                THEN After(DelCall(ServiceName(service_prefix, "alpha")), {"e1"})
                ELSE [DelCall(ServiceName(service_prefix, "alpha")) EXCEPT !.pc = "off"]]
    /\ dhist = [d \in DelProcs |-> DelHist0]
    /\ BuilderOff /\ MainOff
NextCrowded ==
    \/ \E p \in EnsProcs : ensure_router_service(p)
    \/ \E d \in DelProcs : delete_router_service(d)
    \/ Platform
    \/ platform_retire
SpecCrowded == InitCrowded /\ [][NextCrowded]_vars

\* submit_builder_and_wait for a builder that writes a long log
InitLogs ==
    /\ FreshPlane
    /\ taskCap = 0
    /\ lostCap = 0
    /\ streams = {LongLog, << <<"l1", "l2">>, <<"l3">> >>}
    /\ backoff = BackoffOff
    /\ faults = 1
    /\ EnsureOff /\ DeleteOff /\ MainOff
    /\ bTaskDefs \in {0, 1} /\ jobs = {}
    /\ bld \in {BldCall(a, "img:builder") : a \in BOOLEAN}
    /\ bhist = BldHist0
NextLogs ==
    \/ submit_builder_and_wait
    \/ platform_job_stops
SpecLogs == InitLogs /\ [][NextLogs]_vars

\* a retry loop that sleeps before each of its retries
InitBackoff ==
    /\ FreshPlane
    /\ taskCap = 0
    /\ lostCap = 0
    /\ streams = LogChoices
    /\ backoff = [BackoffOff EXCEPT !.pc = "loop"]
    /\ faults = 0
    /\ EnsureOff /\ DeleteOff /\ BuilderOff /\ MainOff
NextBackoff == _sleep_backoff
SpecBackoff == InitBackoff /\ [][NextBackoff]_vars

\* two scenarios of one template family: ensure_router_service for alpha, or
\* no such call, and then ensure_router_service for alpha or beta, each call
\* with an env of the caller's choosing
InitFamily ==
    /\ FreshPlane
    /\ taskCap = 1
    /\ lostCap = 0
    /\ streams = LogChoices
    /\ backoff = BackoffOff
    /\ faults = 0
    /\ \E env1 \in EnvChoices, env2 \in EnvChoices, sid \in Scenarios,
          pc \in {"idle", "off"} :
         ens = [p \in EnsProcs |->
                  IF p = "e1" THEN [EnsCall("alpha", "img:v1", 1, env1) EXCEPT !.pc = pc]
                  ELSE After(EnsCall(sid, "img:v2", 1, env2), {"e1"})]
    /\ ehist = [p \in EnsProcs |-> EnsHist0]
    /\ DeleteOff /\ BuilderOff /\ MainOff
NextFamily ==
    \/ \E p \in EnsProcs : ensure_router_service(p)
    \/ Platform
SpecFamily == InitFamily /\ [][NextFamily]_vars

(* ------------------------------- claims ------------------------------- *)
NameAlpha == ServiceName(service_prefix, "alpha")
Concurrent(p, q) == ehist[p].after = {} /\ ehist[q].after = {}
SameParameters(p, q) ==
    /\ ens[p].scenario_id = ens[q].scenario_id /\ ens[p].image = ens[q].image
    /\ ens[p].desired_count = ens[q].desired_count /\ ens[p].env = ens[q].env

\* C1: whenever two concurrent ensure_router_service calls with identical
\* parameters for scenario S are both over, the cluster holds exactly one
\* Service named prefix-S and the namespace exactly one registration of
\* that name.
C1_OneServiceOneRegistration ==
    \A p, q \in EnsProcs :
        (p # q /\ EnsFinished(p) /\ EnsFinished(q) /\ Concurrent(p, q)
              /\ SameParameters(p, q))
        => /\ Cardinality(EcsLive(SvcNameOf(p))) = 1
           /\ Cardinality(SdLookup(SvcNameOf(p))) = 1
\* both calls found no Service, both went down the create path, both are over
C1_Witness ==
    /\ EnsFinished("e1") /\ EnsFinished("e2") /\ Concurrent("e1", "e2")
    /\ SameParameters("e1", "e2")
    /\ ehist["e1"].path = "create" /\ ehist["e2"].path = "create"
    /\ \E p \in EnsProcs : ens[p].err = "InvalidParameterException"

InGuard(p) == ens[p].pc \in {"guard_check", "guard_list", "guard_count", "guard_stop"}
TheService(name) == CHOOSE s \in EcsDescribe(name) : TRUE

\* C2: on a fresh system the first call (image v1) creates exactly one
\* Service prefix-S carrying the registration of that name and returns
\* prefix-S.<namespace>; the following call (image v2) takes the update path,
\* there is still one Service and one registration, and from its update on the
\* Service points at the revision that call registered, with the requested
\* desired count (until that call's own guard forces it to 0).
C2_CreateThenUpdate ==
    /\ (ens["e1"].pc = "done" /\ ehist["e1"].fresh)
       => /\ ens["e1"].result = router_dns_name(NameAlpha)
          /\ ehist["e1"].path = "create"
          /\ Cardinality(EcsLive(NameAlpha)) = 1
          /\ Cardinality(SdLookup(NameAlpha)) = 1
          /\ TheService(NameAlpha).registries = {s.id : s \in SdLookup(NameAlpha)}
    /\ (ens["e1"].pc = "done" /\ ehist["e1"].fresh /\ ens["e2"].image = "img:v2"
          /\ (InGuard("e2") \/ ens["e2"].pc \in {"dns", "done"}))
       => /\ ehist["e2"].path = "update"
          /\ Cardinality(EcsLive(NameAlpha)) = 1
          /\ Cardinality(SdLookup(NameAlpha)) = 1
          /\ ens["e2"].new_td_arn > ens["e1"].new_td_arn
          /\ taskDefs[ens["e2"].new_td_arn].image = "img:v2"
          /\ TheService(NameAlpha).taskDefinition = ens["e2"].new_td_arn
          /\ TheService(NameAlpha).desiredCount =
                IF ehist["e2"].forced THEN 0 ELSE ens["e2"].desired_count
C2_Witness ==
    /\ ens["e1"].pc = "done" /\ ehist["e1"].fresh
    /\ ens["e2"].pc = "done" /\ ens["e2"].image = "img:v2"
    /\ ehist["e2"].path = "update" /\ ~ehist["e2"].forced

\* C7: once the guard's count of STOPPED observations of the deployed
\* revision has reached fail_threshold, the guard's next step is the update to
\* desired count 0, after which the Service's desired count is 0 and the guard
\* polls no more.
C7_ThresholdForcesZero ==
    \A p \in EnsProcs :
        /\ ens[p].failures >= fail_threshold
           => /\ ens[p].pc \in {"guard_stop", "dns"}
              /\ ens[p].pc = "dns" => ehist[p].forced
        /\ ehist[p].forced => ens[p].pc \in {"dns", "done", "raised"}
        /\ (ehist[p].forced /\ ens[p].pc = "dns")
           => \A s \in EcsDescribe(SvcNameOf(p)) : s.desiredCount = 0
C7_Witness ==
    \E p \in EnsProcs :
        /\ ehist[p].forced /\ ens[p].pc = "dns"
        /\ ens[p].failures >= fail_threshold
        /\ \E s \in EcsDescribe(SvcNameOf(p)) : s.desiredCount = 0

\* C8: a poll that sees running count >= desired count ends the guard, which
\* then has issued no desired-count-0 update; and the counter is positive only
\* if a task of the deployed revision is STOPPED, whatever older revisions'
\* stopped tasks the polls saw.
C8_HealthyNeverForced ==
    \A p \in EnsProcs :
        /\ ehist[p].healthy
           => ~ehist[p].forced /\ ens[p].pc \in {"dns", "done", "raised"}
        /\ ens[p].failures > 0
           => \E t \in tasks : /\ t.svc = SvcNameOf(p) /\ t.td = ens[p].new_td_arn
                               /\ t.lastStatus = "STOPPED"
        /\ ens[p].failures <= fail_threshold * Cardinality(
              {t \in tasks : t.svc = SvcNameOf(p) /\ t.td = ens[p].new_td_arn
                             /\ t.lastStatus = "STOPPED"})
\* the guard counted while an older revision's stopped task was listed, then
\* saw the Service healthy before the threshold
C8_Witness ==
    \E p \in EnsProcs :
        /\ ehist[p].healthy /\ ehist[p].oldseen /\ ens[p].pc = "dns"
        /\ ens[p].failures > 0 /\ ens[p].failures < fail_threshold

\* the retry-wrapped call sites and what each has seen since it was entered
RetrySites ==
    {"list_task_definitions", "register_task_definition", "run_task",
     "update_service", "create_service"}
SiteOf(h) ==
    [site |-> h.site, outcome |-> h.outcome, last |-> h.last, calls |-> h.calls,
     transients |-> h.transients, sleeps |-> h.sleeps]
SiteHistories == {SiteOf(bhist)} \cup {SiteOf(ehist[p]) : p \in EnsProcs}

\* C3: at every retry-wrapped call site (attempt budget 6) a transient error
\* is raised to the caller only as the sixth consecutive one, a call site that
\* has seen six consecutive transient errors raises the last of them, and a
\* success after fewer than six lets the call site continue.
C3_BudgetAtEverySite ==
    \A h \in SiteHistories :
        h.site \in RetrySites =>
            /\ (h.outcome = "raised" /\ _is_transient(h.last))
                   => h.transients = AttemptBudget
            /\ h.transients = AttemptBudget => h.outcome = "raised"
            /\ h.outcome = "ok" => h.calls = h.transients + 1

\* C4: an error that is not classified transient, raised by a retry-wrapped
\* remote operation, propagates on its first occurrence: the operation has
\* been attempted once more than the number of preceding transient errors, and
\* the sleeps are those that followed the transient errors.
C4_PermanentErrorPropagatesAtOnce ==
    \A h \in SiteHistories :
        (h.site \in RetrySites /\ h.last # "" /\ ~_is_transient(h.last)) =>
            /\ h.outcome = "raised"
            /\ h.calls = h.transients + 1
            /\ h.sleeps = h.transients
C4_Witness ==
    \E h \in SiteHistories :
        /\ h.site \in RetrySites /\ h.outcome = "raised"
        /\ h.last = "AccessDeniedException" /\ h.transients >= 2

\* C5: submit_builder_and_wait returns success = true exactly when the
\* launched job's builder container reported exit code 0; with any other exit
\* code, or none (a job still running after the wait gave up included), it
\* returns false, and with no exit code the returned log tail holds the
\* missing-exit-code line.
Elements(seq) == {seq[i] : i \in 1..Len(seq)}
C5_SuccessIffExitZero ==
    bld.pc = "done" =>
        /\ bld.ok <=> (bhist.described /\ bhist.reported = Some(0))
        /\ (bhist.described /\ bhist.reported = None)
               => MissingExitLine \in Elements(bld.tail)
C5_Witness ==
    /\ bld.pc = "done" /\ bhist.described /\ bhist.reported = None
    /\ TheJob.lastStatus = "RUNNING"
    /\ ~bld.ok /\ MissingExitLine \in Elements(bld.tail)

\* C6: delete_router_service called for a name with no live Service (never
\* created, already deleted and INACTIVE, or deleted by a concurrent delete
\* while this call drains) returns normally and never raises.
C6_DeleteOfAbsentReturns ==
    \A d \in DelProcs :
        (dhist[d].absent \/ dhist[d].gone) => del[d].pc # "raised"

\* C9: a reaper tick issues a desiredCount=0 update for every scenario of the
\* tracker whose last access was older than the idle window when the tick
\* began, and the scenario is absent from the tracker after the tick (a
\* scenario accessed again since the tick began is left aside).
C9_TickReapsEveryStale ==
    rhist.ended =>
        \A rid \in rhist.stale0 :
            \/ rid \in rhist.touched
            \/ rid \in rhist.issued /\ rid \notin DOMAIN _last_hit

\* C10: whatever the interleaving of router_warmup handlers with a reaper tick,
\* the tick neither scales to zero nor removes from the tracker a scenario
\* whose most recent recorded access is within the idle window.
C10_RecentAccessUntouched ==
    ~rhist.scaledFresh /\ ~rhist.removedFresh

\* C11: once delete_router_service has deleted a Service no discovery
\* registration of that name remains, and the registration a later
\* ensure_router_service for the scenario attaches is a new one, not the one
\* of the deleted Service.
C11_DeleteRemovesRegistration ==
    (\E d \in DelProcs : del[d].pc = "done" /\ dhist[d].deleted) =>
        /\ ens["e2"].pc = "idle"
               => SdLookup(ServiceName(service_prefix, "alpha")) = {}
        /\ ens["e2"].registry_arn # 0
               => ens["e2"].registry_arn # ens["e1"].registry_arn

\* C12: in the environment of the revision ensure_router_service registers,
\* a system-injected identifier (scenario id, region) overrides the caller's
\* value for its key, the caller's value overrides the base template's, and
\* the template's value stands where neither speaks.
SystemEnv(c) ==
    [k \in {"GRAPH_SCENARIO_ID", "AWS_REGION"} |->
        IF k = "AWS_REGION" THEN AWS_REGION ELSE c.scenario_id]
\* keys ensure_router_service sets from a parameter of their own
ParameterKeys == {"GRAPHS_BUCKET", "GRAPH_PREFIX"}
C12_EnvPrecedence ==
    \A p \in EnsProcs :
        ens[p].new_td_arn # 0 =>
            LET env == taskDefs[ens[p].new_td_arn].env
                base == taskDefs[ens[p].base_td].env
                sys == SystemEnv(ens[p])
            IN  /\ \A k \in DOMAIN sys : k \in DOMAIN env /\ env[k] = sys[k]
                /\ \A k \in DOMAIN ens[p].env \ (DOMAIN sys \cup ParameterKeys) :
                       k \in DOMAIN env /\ env[k] = ens[p].env[k]
                /\ \A k \in DOMAIN base \ (DOMAIN sys \cup DOMAIN ens[p].env
                                              \cup ParameterKeys) :
                       k \in DOMAIN env /\ env[k] = base[k]

\* C13 (as claimed): an ensure_router_service call that fails with a
\* configuration error (no image, or no ACTIVE base revision) has retried
\* nothing and has left the platform and the discovery system unchanged: no
\* registration, no revision, no Service.
ConfigError(p) ==
    ens[p].pc = "raised" /\ ens[p].err \in {"ValueError", "RuntimeError"}
C13_ConfigErrorChangesNothing ==
    (ConfigError("e1") /\ ens["e2"].pc = "idle") =>
        /\ ehist["e1"].site = ""
        /\ sdServices = {}
        /\ taskDefs \in {<< >>, <<BaseRevision>>}
        /\ ecsServices = {}

\* C13 (amended): a call without an image raises ValueError before any remote
\* call and changes nothing; a call that finds no ACTIVE base revision raises
\* RuntimeError without a retry, having registered no revision and created or
\* updated no Service, but after the discovery registration of its first step
\* was made, which stays.
C13_ConfigErrorAfterRegistration ==
    /\ (ens["e1"].image = "" /\ ens["e1"].pc # "idle")
           => ens["e1"].pc = "raised" /\ ens["e1"].err = "ValueError"
    /\ (ConfigError("e1") /\ ens["e2"].pc = "idle") =>
           /\ ehist["e1"].site = ""
           /\ taskDefs \in {<< >>, <<BaseRevision>>}
           /\ ecsServices = {}
           /\ ens["e1"].err = "ValueError" => sdServices = {}
           /\ ens["e1"].err = "RuntimeError" =>
                  /\ taskDefs = << >>
                  /\ sdServices = {[id |-> 1, name |-> SvcNameOf("e1")]}
C13_Witness ==
    /\ ConfigError("e1") /\ ens["e1"].err = "RuntimeError"
    /\ SdLookup(SvcNameOf("e1")) # {} /\ ecsServices = {}

\* C14: a submit_builder_and_wait call launches exactly one job instance:
\* whatever the transient failures and retries of the launch request, an
\* answer lost after the platform accepted the launch included, no more than
\* one job exists for the call, a call that got a task back has exactly one,
\* and no revision is registered for a family that has one.
C14_ExactlyOneJob ==
    /\ Cardinality(jobs) <= 1
    /\ bld.task_arn # 0 => Cardinality(jobs) = 1
    /\ bTaskDefs <= 1


\* C15: once the job is STOPPED, no step of the log fetch raises to the
\* caller, whatever failure get_log_events reports: the call goes on
\* fetching or goes to its return.
C15_LogFailureNeverRaised ==
    [][(bld.pc = "logs" /\ TheJob.lastStatus = "STOPPED") => bld'.pc # "raised"]_vars

\* C16: a remote failure met inside the fail-loop guard (describe_services,
\* list_tasks, describe_tasks or the forced update_service) does not make
\* ensure_router_service raise: no step of the guard ends the call in an error.
C16_GuardFailureIsolated ==
    [][\A p \in EnsProcs :
          ens[p].pc \in {"guard_check", "guard_list", "guard_count", "guard_stop"}
              => ens'[p].pc # "raised"]_vars


Up(rid) ==
    \E s \in EcsDescribe(ServiceName(service_prefix, rid)) :
        s.status = "ACTIVE" /\ s.desiredCount > 0
Tracked(rid) == rid \in DOMAIN _last_hit
\* no warm-up handler for the scenario is in flight and the reaper is between
\* two ticks
Quiet(rid) ==
    /\ reaper.pc = "sleep"
    /\ \A w \in WarmProcs : warm[w].rid = rid => warm[w].pc \in {"idle", "done"}
\* C17: with the reaper ticking, a router Service with a positive desired
\* count whose scenario stays unaccessed for longer than the idle window is
\* eventually set to desired count 0 (unless the scenario is accessed again):
\* both when a warm-up recorded the last access, and when the Service was
\* brought up at time 0 by the build request and no warm-up followed.
C17_IdleServiceReaped ==
    \A rid \in Scenarios :
        /\ (Up(rid) /\ Tracked(rid) /\ IsStale(now, _last_hit[rid]) /\ Quiet(rid))
              ~> (~Up(rid) \/ (Tracked(rid) /\ ~IsStale(now, _last_hit[rid])))
        /\ (Up(rid) /\ now = 0 /\ ~Tracked(rid) /\ \A p \in EnsProcs : EnsFinished(p))
              ~> (~Up(rid) \/ Tracked(rid))

\* C18: when a reaper tick is over, update_service(desiredCount=0) was
\* requested for every scenario of the tick's stale list, also when the
\* request for one of them raised, and the loop is back at its sleep, from
\* where the next tick starts.
C18_FailureDoesNotStopTick ==
    rhist.ended => rhist.listed \subseteq rhist.issued /\ reaper.pc = "sleep"
\* a tick over two stale scenarios in which one update_service raised
C18_Witness ==
    /\ rhist.ended /\ Cardinality(rhist.listed) = 2
    /\ rhist.failed # {} /\ rhist.failed # rhist.listed
    /\ rhist.issued = rhist.listed


\* a step of p's fail-loop guard
GuardStep(p) == InGuard(p) /\ ens'[p] # ens[p]
DesiredCountAside(svcs) == {[s EXCEPT !.desiredCount = 0] : s \in svcs}
\* C19: a step of the guard leaves the registrations, the template revisions
\* and the tasks as they are and changes no Service but in its desired count;
\* and once the first call's guard has forced the Service to 0, the following
\* call for the scenario takes the update path, after which the Service points
\* at the revision that call registered, newer than the first call's, with
\* the requested positive desired count (until that call's own guard forces 0).
C19_GuardOnlyScales ==
    /\ [][\A p \in EnsProcs :
            GuardStep(p) =>
                /\ sdServices' = sdServices /\ taskDefs' = taskDefs /\ tasks' = tasks
                /\ DesiredCountAside(ecsServices') = DesiredCountAside(ecsServices)
                /\ Cardinality(ecsServices') = Cardinality(ecsServices)]_vars
    /\ []((/\ ehist["e1"].forced /\ ens["e1"].pc = "done"
           /\ (InGuard("e2") \/ ens["e2"].pc \in {"dns", "done"}))
          => /\ ehist["e2"].path = "update"
             /\ Cardinality(EcsLive(NameAlpha)) = 1
             /\ ens["e2"].new_td_arn > ens["e1"].new_td_arn
             /\ TheService(NameAlpha).taskDefinition = ens["e2"].new_td_arn
             /\ ens["e2"].desired_count > 0
             /\ TheService(NameAlpha).desiredCount =
                   IF ehist["e2"].forced THEN 0 ELSE ens["e2"].desired_count)
\* the first call's guard forced 0, the second call updated and ended with
\* the Service at its requested desired count
C19_Witness ==
    /\ ehist["e1"].forced /\ ens["e1"].pc = "done"
    /\ ens["e2"].pc = "done" /\ ehist["e2"].path = "update" /\ ~ehist["e2"].forced
    /\ TheService(NameAlpha).desiredCount = ens["e2"].desired_count
    /\ TheService(NameAlpha).desiredCount > 0


\* the call has made its first request
DelStarted(d) == del[d].pc \in {"drain", "delete"}
DelEnded(d) == del[d].pc \in {"done", "raised"}
\* C20: delete_router_service is about to issue, or has issued, delete_service
\* only with its desiredCount=0 update accepted and its drain poll ended: the
\* poll made between 1 and 30 observations, and it ended either on a running
\* count of 0 or on the 30th observation, in which case delete_service is
\* issued with tasks still running; and a call that was started comes to its
\* end.
C20_DrainThenDelete ==
    /\ [](\A d \in DelProcs :
            /\ del[d].polls <= DrainPolls
            /\ (del[d].pc = "delete" \/ dhist[d].deleted)
               => /\ dhist[d].scaled
                  /\ del[d].polls >= 1
            /\ del[d].pc = "delete"
               => \/ RunningCount(del[d].service_name) = 0
                  \/ del[d].polls = DrainPolls)
    /\ [][\A d \in DelProcs :
            (dhist'[d].deleted /\ ~dhist[d].deleted) => del[d].pc = "delete"]_vars
    /\ \A d \in DelProcs : DelStarted(d) ~> DelEnded(d)
\* delete_service was accepted after the 30th observation, a task still running
C20_Witness ==
    \E d \in DelProcs :
        /\ dhist[d].deleted /\ del[d].pc = "done" /\ del[d].polls = DrainPolls
        /\ RunningCount(del[d].service_name) > 0


\* no other call is under way, and none that began after p's return created
LastCreator(p) ==
    \A q \in EnsProcs \ {p} :
        \/ ens[q].pc \in {"idle", "off"}
        \/ EnsFinished(q) /\ (p \notin ehist[q].after \/ ehist[q].path # "create")
\* C21: whenever an ensure_router_service call that took the create path has
\* returned normally (and no later call created the Service anew), the live
\* Service of its name carries a discovery registration, and it is a
\* registration of that name.
C21_CreatedServiceIsRegistered ==
    \A p \in EnsProcs :
        (ens[p].pc = "done" /\ ehist[p].path = "create" /\ LastCreator(p))
            => \A s \in EcsLive(SvcNameOf(p)) :
                   /\ s.registries # {}
                   /\ s.registries \subseteq {r.id : r \in SdLookup(SvcNameOf(p))}

\* C22: once run_task has answered with failures, submit_builder_and_wait has
\* returned (False, [one synthesized line]); it launched nothing on that
\* answer, asked the launch no second time, and neither waited for, described
\* nor fetched the log of any task.
C22_RefusedLaunchIsTerminal ==
    bhist.refused =>
        /\ bld.pc = "done" /\ ~bld.ok
        /\ Len(bld.tail) = 1 /\ bld.tail[1] = RunFailureLine
        /\ bld.task_arn = 0
        /\ ~bhist.waited /\ ~bhist.described /\ bhist.fetched = 0
        /\ bhist.site = "run_task" /\ bhist.outcome = "ok"
\* the launch was refused after a transient failure had been retried
C22_Witness ==
    bhist.refused /\ bld.pc = "done" /\ bhist.transients > 0 /\ jobs = {}


\* the events of the first k pages of a log stream, oldest first
RECURSIVE FirstPages(_, _)
FirstPages(log, k) ==
    IF k = 0 \/ log = << >> THEN << >>
    ELSE FirstPages(log, IF k - 1 < Len(log) - 1 THEN k - 1 ELSE Len(log) - 1)
             \o log[IF k < Len(log) THEN k ELSE Len(log)]
\* the lines a returned call had gathered: the pages it read, then the
\* diagnostic lines
Gathered ==
    FirstPages(TheJob.log, bld.pages)
        \o (IF bhist.fetched > bld.pages THEN <<LogsFailedLine>> ELSE << >>)
        \o (IF bld.exit_code = None THEN <<MissingExitLine>> ELSE << >>)
\* C23: the fetch reads no page after the one whose token repeats (the page
\* after the last of the stream, or the second page of an empty stream) and
\* never more than 50 pages; and the tail a call returns after its fetch has at most
\* 400 lines, which are the last lines it gathered, in the order of the stream.
C23_TailIsRecentSuffix ==
    /\ bld.task_arn # 0
       => /\ bld.pages <= LogPageLimit /\ bhist.fetched <= LogPageLimit
          /\ bld.pages <= (IF TheJob.log = << >> THEN 1 ELSE Len(TheJob.log)) + 1
    /\ (bld.pc = "done" /\ bld.task_arn # 0)
       => /\ Len(bld.tail) <= TailLimit
          /\ Len(bld.tail) = IF Len(Gathered) < TailLimit THEN Len(Gathered)
                             ELSE TailLimit
          /\ \A i \in 1..Len(bld.tail) :
                bld.tail[i] = Gathered[Len(Gathered) - Len(bld.tail) + i]
\* the fetch read 50 pages of a longer stream and the tail was cut to 400 lines
C23_Witness ==
    /\ bld.pc = "done" /\ bld.task_arn # 0
    /\ bld.pages = LogPageLimit /\ Len(TheJob.log) > LogPageLimit
    /\ Len(Gathered) > TailLimit /\ Len(bld.tail) = TailLimit


\* C24: the delay slept before the retry of attempt index a is at most
\* min(cap, base * 2^a) and at least half of it, so no sleep exceeds cap.
C24_DelayWithinCeiling ==
    backoff.pc = "slept" =>
        /\ backoff.delay <= Ceiling(backoff.attempt - 1)
        /\ 2 * backoff.delay >= Ceiling(backoff.attempt - 1)
        /\ backoff.delay <= cap_ms


\* C25: the guard is in a poll only while its window has not elapsed; a call
\* whose guard saw neither the healthy state nor the threshold goes on to
\* return the network name, the Service keeping the requested desired count;
\* and every call that was started comes to its end.
C25_GuardWindowEnds ==
    /\ [](\A p \in EnsProcs :
            /\ ens[p].pc \in {"guard_list", "guard_count", "guard_stop"}
               => ens[p].elapsed < FailWindow
            /\ (/\ ens[p].pc \in {"dns", "done"} /\ ehist[p].path # ""
                /\ ~ehist[p].healthy /\ \A q \in EnsProcs : ~ehist[q].forced)
               => /\ \A s \in EcsLive(SvcNameOf(p)) :
                        s.desiredCount = ens[p].desired_count
                  /\ ens[p].pc = "done"
                     => ens[p].result = router_dns_name(SvcNameOf(p)))
    /\ \A p \in EnsProcs : (ens[p].pc \notin {"idle", "off"}) ~> EnsFinished(p)
\* the window elapsed with the Service neither healthy nor stopped
C25_Witness ==
    \E p \in EnsProcs :
        /\ ens[p].pc = "dns" /\ ens[p].elapsed = FailWindow
        /\ ~ehist[p].healthy /\ ~ehist[p].forced
        /\ ens[p].failures > 0 /\ ens[p].failures < fail_threshold
        /\ \E s \in EcsLive(SvcNameOf(p)) : s.desiredCount = ens[p].desired_count


\* C26: ensure_router_service goes to the update path exactly when
\* describe_services shows a Service of the name whose status is not
\* INACTIVE, and to the create path otherwise; and an ensure_router_service
\* that follows a delete_router_service which deleted the scenario's Service
\* takes the create path, returns, and leaves exactly one live Service of the
\* name.
C26_RecreatedAfterDelete ==
    /\ [][\A p \in EnsProcs :
            (ens[p].pc = "describe_svc" /\ ens'[p].pc \in {"update", "create"})
                => (ens'[p].pc = "update"
                      <=> \E s \in EcsDescribe(SvcNameOf(p)) : s.status # "INACTIVE")]_vars
    /\ []((/\ \E d \in DelProcs : del[d].pc = "done" /\ dhist[d].deleted
           /\ EnsFinished("e2"))
          => /\ ens["e2"].pc = "done"
             /\ ehist["e2"].path = "create"
             /\ Cardinality(EcsLive(NameAlpha)) = 1)


\* the environment a call derives from the pre-provisioned base template
EnvFromBase(c) ==
    MergedEnv(BaseRevision.env, c.env, c.scenario_id, c.graphs_bucket,
              c.graph_prefix, AWS_REGION)
\* C27: the environment of the revision a call registers for its scenario is
\* what the pre-provisioned base template and the call's own inputs give,
\* whatever calls were made before it for other scenarios of the family; and
\* registering a revision alters no earlier revision.
C27_RevisionFromBaseOnly ==
    /\ [](\A p \in EnsProcs :
            (/\ ens[p].new_td_arn # 0
             /\ \A q \in ehist[p].after : ens[q].scenario_id # ens[p].scenario_id)
            => taskDefs[ens[p].new_td_arn].env = EnvFromBase(ens[p]))
    /\ [][\A i \in 1..Len(taskDefs) :
            i <= Len(taskDefs') /\ taskDefs'[i] = taskDefs[i]]_vars


\* the terminated tasks of the revision p deployed
StoppedOfNew(p) ==
    {t \in tasks : /\ t.svc = SvcNameOf(p) /\ t.td = ens[p].new_td_arn
                   /\ t.lastStatus = "STOPPED"}
\* C28: the guard's failure counter never exceeds the number of distinct
\* terminated tasks of the deployed revision, however many polls saw them,
\* and the guard forces the desired count to 0 only when at least
\* fail_threshold distinct tasks of that revision have terminated.
C28_EachTaskCountedOnce ==
    \A p \in EnsProcs :
        /\ ens[p].failures <= Cardinality(StoppedOfNew(p))
        /\ (ehist[p].forced /\ ens[p].pc = "dns")
           => Cardinality(StoppedOfNew(p)) >= fail_threshold


\* C29: a scenario leaves the idle tracker only once it has been reaped: when
\* the reaper's scale-down request for a stale scenario failed, the step
\* that ends the reaper's handling of it leaves the scenario tracked.
C29_FailedScaleDownStaysTracked ==
    [][(/\ reaper.pc = "pop" /\ reaper'.pc # "pop"
        /\ reaper.rid \in rhist.failed
        /\ reaper.rid \in DOMAIN _last_hit)
       => reaper.rid \in DOMAIN _last_hit']_vars

====
